---- MODULE Spec2Model ----
(***************************************************************************)
(* State-machine model of the "Libro de Compras" client: the ledger store  *)
(* (stores/dte.ts, useFormsStore) and the annotation store (useNotasStore).*)
(* Every await of the source is a suspension point: an asynchronous action *)
(* is split into one step per await, and the code that runs between two    *)
(* awaits (including catch and finally blocks) is one atomic step.         *)
(***************************************************************************)
EXTENDS Integers, Sequences, FiniteSets, TLC

(***************************************************************************)
(* Bounds of the model.                                                    *)
(***************************************************************************)
\* number of ledger-store invocations that may be in flight together
MaxCalls == 2

LedgerCalls == 1 .. MaxCalls

(***************************************************************************)
(* Optional values: null is the empty sequence, a value v is <<v>>.        *)
(***************************************************************************)
None == << >>
Some(v) == << v >>

\* the value of an empty error slot (error.value = null)
NullError == "<null>"

(***************************************************************************)
(* Errors thrown by the transport layer.  An axios error may carry a       *)
(* server-supplied message (response.data.error), a plain message, or      *)
(* neither.                                                                *)
(***************************************************************************)
NoErr == [responseError |-> "", responseMessage |-> "", message |-> ""]
ServerErr ==
  [responseError |-> "Internal server error", responseMessage |-> "",
   message |-> "Request failed with status code 500"]
NetworkErr == [responseError |-> "", responseMessage |-> "", message |-> "Network Error"]
BareErr == [responseError |-> "", responseMessage |-> "", message |-> ""]
NotFoundErr ==
  [responseError |-> "", responseMessage |-> "Nota no encontrada",
   message |-> "Request failed with status code 404"]
TransportErrors == {ServerErr, NetworkErr, BareErr}

\* err.response?.data?.error || err.message || fallback
ErrorMessage(err, fallback) ==
  IF err.responseError # "" THEN err.responseError
  ELSE IF err.message # "" THEN err.message
  ELSE fallback

NoPeriodosMessage == "No se encontraron periodos para la empresa y fecha especificada"
GetAllFallback == "An error occurred"

(***************************************************************************)
(* The backend's data, as the REST endpoints return it.                    *)
(***************************************************************************)
rutEmpresa == "65.145.564-2"

EmpresaDb == [rutEmpresa |-> rutEmpresa, razonSocial |-> "Empresa Uno"]

Months == {"07", "08", "09"}
Years == {"2025"}

Periodo(id, anio, mes) == [periodoId |-> id, rutEmpresa |-> rutEmpresa, anio |-> anio, mes |-> mes]

AllPeriodos == << Periodo(1, 2025, 8), Periodo(2, 2025, 7), Periodo(3, 2025, 8) >>

MesNumber(mes) ==
  CASE mes = "07" -> 7
    [] mes = "08" -> 8
    [] mes = "09" -> 9
    [] OTHER -> 0

AnioNumber(anio) == IF anio = "2025" THEN 2025 ELSE 0

\* GET /api/dte/empresas/:rut/periodos?anio=..&mes=..  (a filter is applied only
\* when the parameter is present)
PeriodosDb(anio, mes) ==
  SelectSeq(AllPeriodos, LAMBDA p :
    /\ (anio # "" => p.anio = AnioNumber(anio))
    /\ (mes # "" => p.mes = MesNumber(mes)))

ResumenRow(p) ==
  [resumenId |-> p, periodoId |-> p, tipoDte |-> 33, descripcion |-> IF p = 2 THEN "" ELSE "Factura",
   totalDocumentos |-> p, montoTotal |-> IF p = 1 THEN "100" ELSE "200", estado |-> "Confirmada"]

DetalleRow(p) ==
  [detalleId |-> p, periodoId |-> p, tipoDte |-> 33, descripcion |-> IF p = 2 THEN "" ELSE "Factura",
   rutProveedor |-> "76.1-9", razonSocial |-> IF p = 1 THEN "" ELSE "Proveedor",
   folio |-> IF p = 1 THEN "101" ELSE "102", montoTotal |-> IF p = 1 THEN "100" ELSE "200",
   estado |-> "Confirmada"]

\* GET /api/dte/resumen-compras[/:periodoId]  (periodoId 0 stands for "absent")
ResumenDb(periodoId) ==
  IF periodoId = 0 THEN << ResumenRow(1), ResumenRow(2), ResumenRow(3) >>
  ELSE << ResumenRow(periodoId) >>

\* GET /api/dte/detalle-compras[/:periodoId]
DetalleDb(periodoId) ==
  IF periodoId = 0 THEN << DetalleRow(1), DetalleRow(2), DetalleRow(3) >>
  ELSE << DetalleRow(periodoId) >>

EmpresasDb == << EmpresaDb >>
TiposDteDb == << [tipoDte |-> 33, descripcion |-> "Factura"] >>
ProveedoresDb == << [rutProveedor |-> "76.1-9", razonSocial |-> "Proveedor"] >>

(***************************************************************************)
(* Helper functions of the ledger store.                                   *)
(***************************************************************************)
MonthNames ==
  << "Enero", "Febrero", "Marzo", "Abril", "Mayo", "Junio",
     "Julio", "Agosto", "Septiembre", "Octubre", "Noviembre", "Diciembre" >>

getMonthName(monthNumber) ==
  IF monthNumber \in 1 .. 12 THEN MonthNames[monthNumber] ELSE "Mes Desconocido"

\* parseFloat / parseInt on the decimal strings the backend sends
parseFloat(s) ==
  CASE s = "100" -> 100
    [] s = "200" -> 200
    [] s = "101" -> 101
    [] s = "102" -> 102
    [] OTHER -> 0

TipoLabel(tipoDte) == IF tipoDte = 33 THEN "Tipo 33" ELSE "Tipo"

transformResumenCompras(resumen) ==
  [tipoDte |-> resumen.tipoDte,
   tipoDteString |-> IF resumen.descripcion # "" THEN resumen.descripcion ELSE TipoLabel(resumen.tipoDte),
   totalDocumentos |-> resumen.totalDocumentos,
   montoTotal |-> parseFloat(resumen.montoTotal),
   estado |-> resumen.estado]

transformDetalleCompras(detalle) ==
  [tipoDTEString |-> IF detalle.descripcion # "" THEN detalle.descripcion ELSE TipoLabel(detalle.tipoDte),
   tipoDTE |-> detalle.tipoDte,
   rutProveedor |-> detalle.rutProveedor,
   razonSocial |-> IF detalle.razonSocial # "" THEN detalle.razonSocial ELSE "Sin razon social",
   folio |-> parseFloat(detalle.folio),
   montoTotal |-> parseFloat(detalle.montoTotal),
   estado |-> detalle.estado]

\* resumenCompras.value.map(transformResumenCompras)
mapResumenes(s) == [i \in 1 .. Len(s) |-> transformResumenCompras(s[i])]

\* detalleCompras.value.map(transformDetalleCompras)
mapDetalles(s) == [i \in 1 .. Len(s) |-> transformDetalleCompras(s[i])]

\* `${anio}${mes.toString().padStart(2, '0')}` read as a number
PeriodoCode(p) == p.anio * 100 + p.mes

\* the denormalized view built at the end of getAll, from the store's state at
\* that moment
transformedData(empresa, periodo, resumenes, detalles) ==
  [caratula |-> [rutEmpresa |-> empresa.rutEmpresa,
                 nombreMes |-> getMonthName(periodo.mes),
                 mes |-> periodo.mes,
                 anio |-> periodo.anio,
                 periodo |-> PeriodoCode(periodo)],
   compras |-> [resumenes |-> mapResumenes(resumenes),
                detalleCompras |-> mapDetalles(detalles)]]

(***************************************************************************)
(* Responses of the gateway: status is "none" while the request is         *)
(* outstanding, "ok" with data, or "error" with the transport error.       *)
(***************************************************************************)
NoResponse == [status |-> "none", data |-> << >>, err |-> NoErr]
OkResponse(d) == [status |-> "ok", data |-> d, err |-> NoErr]
ErrResponse(e, empty) == [status |-> "error", data |-> empty, err |-> e]

\* what a request may come back with: the backend's answer or one of the
\* transport errors E (empty is the value of the same shape that stands for
\* "no data")
Responses(d, empty, E) == {OkResponse(d)} \cup {ErrResponse(e, empty) : e \in E}

NoEmpresa == [rutEmpresa |-> "", razonSocial |-> ""]

(***************************************************************************)
(* State of the ledger store (useFormsStore) and of its invocations.       *)
(***************************************************************************)
VARIABLES
  loading,          \* ref(false)
  error,            \* ref<string | null>(null)
  data,             \* ref<FormResponse | null>(null)
  empresas,
  selectedEmpresa,
  periodos,
  selectedPeriodo,
  resumenCompras,
  detalleCompras,
  tiposDte,
  proveedores,
  currentMonth,     \* ref('08')
  currentYear,      \* ref('2025')
  calls,            \* the store actions in flight: locals and position of each
  invocations       \* the slots of calls, in the order the actions were invoked

ledgerVars ==
  << loading, error, data, empresas, selectedEmpresa, periodos, selectedPeriodo,
     resumenCompras, detalleCompras, tiposDte, proveedores, currentMonth,
     currentYear, calls, invocations >>

LoaderOps ==
  {"loadEmpresas", "loadPeriodosByEmpresa", "loadResumenCompras",
   "loadDetalleCompras", "loadTiposDte", "loadProveedores"}

\* the locals of one invocation of a store action
IdleCall ==
  [op |-> "none", pc |-> "idle", actualMonth |-> "", actualYear |-> "",
   periodoId |-> 0, sent |-> {},
   periodosResponse |-> NoResponse, resumenResponse |-> NoResponse,
   detalleResponse |-> NoResponse,
   outcome |-> "none", returned |-> None]

\* slot c is free for a new invocation: the first slot with no action in flight
Free(c) ==
  /\ calls[c].pc \in {"idle", "done"}
  /\ \A d \in LedgerCalls : d < c => calls[d].pc \notin {"idle", "done"}

\* a settled invocation: what the caller and the network have seen of it (the
\* promise's outcome and value, the requests it issued and the periods response
\* it received)
Settled(locals, outcome, returned) ==
  [IdleCall EXCEPT !.pc = "done", !.outcome = outcome, !.returned = returned,
                   !.sent = locals.sent,
                   !.periodosResponse = locals.periodosResponse]

\* a new invocation takes slot c: it becomes the most recent one
Invoked(c) == Append(SelectSeq(invocations, LAMBDA x : x # c), c)

\* the store as constructed, but for the denormalized view
InitStore ==
  /\ loading = FALSE
  /\ error = NullError
  /\ empresas = << >>
  /\ selectedEmpresa = None
  /\ periodos = << >>
  /\ selectedPeriodo = None
  /\ resumenCompras = << >>
  /\ detalleCompras = << >>
  /\ tiposDte = << >>
  /\ proveedores = << >>
  /\ currentMonth = "08"
  /\ currentYear = "2025"
  /\ calls = [c \in LedgerCalls |-> IdleCall]
  /\ invocations = << >>

InitLedger == InitStore /\ data = None

(***************************************************************************)
(* getAll(month?, year?)                                                   *)
(***************************************************************************)
\* getAll without its finally block: a failure leaves the loading flag alone
GetAllFailNoFinally(c, locals, err) ==
  /\ error' = ErrorMessage(err, GetAllFallback)
  /\ loading' = loading
  /\ calls' = [calls EXCEPT ![c] =
       [IdleCall EXCEPT !.pc = "done", !.outcome = "rejected", !.sent = locals.sent,
                        !.periodosResponse = locals.periodosResponse]]

\* the catch and finally blocks of getAll: the message goes to the error slot,
\* a new Error(message) is thrown and loading is reset
\* (locals: the invocation's locals when the exception is raised)
GetAllFail(c, locals, err) ==
  /\ error' = ErrorMessage(err, GetAllFallback)
  /\ loading' = FALSE
  /\ calls' = [calls EXCEPT ![c] = Settled(locals, "rejected", None)]

\* entry: defaults, loading/error reset, getEmpresaByRut issued
GetAllStart(c, month, year) ==
  /\ Free(c)
  /\ loading' = TRUE
  /\ error' = NullError
  /\ calls' = [calls EXCEPT ![c] =
       [IdleCall EXCEPT !.op = "getAll", !.pc = "empresa",
                        !.actualMonth = IF month # "" THEN month ELSE currentMonth,
                        !.actualYear = IF year # "" THEN year ELSE currentYear,
                        !.sent = {"empresa"}]]
  /\ invocations' = Invoked(c)
  /\ UNCHANGED << data, empresas, selectedEmpresa, periodos, selectedPeriodo,
                  resumenCompras, detalleCompras, tiposDte, proveedores,
                  currentMonth, currentYear >>

\* the getEmpresaByRut response arrives; on success getPeriodosByEmpresa is issued
GetAllEmpresaResponse(c, resp) ==
  /\ calls[c].op = "getAll"
  /\ calls[c].pc = "empresa"
  /\ IF resp.status = "ok"
     THEN /\ selectedEmpresa' = Some(resp.data)
          /\ calls' = [calls EXCEPT ![c].pc = "periodos",
                                    ![c].sent = @ \cup {"periodos"}]
          /\ UNCHANGED << loading, error >>
     ELSE /\ GetAllFail(c, calls[c], resp.err)
          /\ UNCHANGED selectedEmpresa
  /\ UNCHANGED << data, empresas, periodos, selectedPeriodo, resumenCompras,
                  detalleCompras, tiposDte, proveedores, currentMonth,
                  currentYear, invocations >>

\* the getPeriodosByEmpresa response arrives; with at least one period the first
\* is selected and the summary and the detail requests are issued together
GetAllPeriodosResponse(c, resp) ==
  /\ calls[c].op = "getAll"
  /\ calls[c].pc = "periodos"
  /\ IF resp.status = "ok"
     THEN /\ periodos' = resp.data
          /\ IF Len(resp.data) > 0
             THEN /\ selectedPeriodo' = Some(resp.data[1])
                  /\ calls' = [calls EXCEPT ![c].pc = "join",
                                            ![c].periodosResponse = resp,
                                            ![c].periodoId = resp.data[1].periodoId,
                                            ![c].sent = @ \cup {"resumen", "detalle"}]
                  /\ UNCHANGED << loading, error >>
             ELSE \* throw new Error('No se encontraron periodos ...')
                  /\ GetAllFail(c, [calls[c] EXCEPT !.periodosResponse = resp],
                                [NoErr EXCEPT !.message = NoPeriodosMessage])
                  /\ UNCHANGED selectedPeriodo
     ELSE /\ GetAllFail(c, [calls[c] EXCEPT !.periodosResponse = resp], resp.err)
          /\ UNCHANGED << periodos, selectedPeriodo >>
  /\ UNCHANGED << data, empresas, selectedEmpresa, resumenCompras,
                  detalleCompras, tiposDte, proveedores, currentMonth,
                  currentYear, invocations >>

\* getAll guarded by a request token: only the most recently invoked call
\* installs its result
GetAllJoinLatestOnly(c, locals) ==
  /\ resumenCompras' = locals.resumenResponse.data
  /\ detalleCompras' = locals.detalleResponse.data
  /\ data' = IF invocations[Len(invocations)] = c
             THEN Some(transformedData(selectedEmpresa[1], selectedPeriodo[1],
                                       locals.resumenResponse.data,
                                       locals.detalleResponse.data))
             ELSE data
  /\ loading' = FALSE
  /\ calls' = [calls EXCEPT ![c] =
       [IdleCall EXCEPT !.pc = "done", !.outcome = "resolved", !.sent = locals.sent,
                        !.periodosResponse = locals.periodosResponse,
                        !.returned = Some(transformedData(selectedEmpresa[1], selectedPeriodo[1],
                                                          locals.resumenResponse.data,
                                                          locals.detalleResponse.data))]]
  /\ UNCHANGED error

\* the code after `await Promise.all([...])`: both collections are stored, the
\* denormalized view is built from the store's state and returned
GetAllJoin(c, locals) ==
  /\ resumenCompras' = locals.resumenResponse.data
  /\ detalleCompras' = locals.detalleResponse.data
  /\ data' = Some(transformedData(selectedEmpresa[1], selectedPeriodo[1],
                                  locals.resumenResponse.data,
                                  locals.detalleResponse.data))
  /\ loading' = FALSE
  /\ calls' = [calls EXCEPT ![c] =
       Settled(locals, "resolved",
               Some(transformedData(selectedEmpresa[1], selectedPeriodo[1],
                                    locals.resumenResponse.data,
                                    locals.detalleResponse.data)))]
  /\ UNCHANGED error

\* getAll with the two requests awaited and stored one by one: the collection
\* of a response is written as soon as it arrives
GetAllArrivalEagerWrite(c, locals, resp, joined) ==
  IF resp.status = "error"
  THEN /\ error' = ErrorMessage(resp.err, GetAllFallback)
       /\ loading' = FALSE
       /\ calls' = [calls EXCEPT ![c] =
            [IdleCall EXCEPT !.pc = "done", !.outcome = "rejected", !.sent = locals.sent,
                             !.periodosResponse = locals.periodosResponse]]
       /\ UNCHANGED << data, resumenCompras, detalleCompras >>
  ELSE /\ resumenCompras' = IF locals.resumenResponse.status = "ok"
                            THEN locals.resumenResponse.data ELSE resumenCompras
       /\ detalleCompras' = IF locals.detalleResponse.status = "ok"
                            THEN locals.detalleResponse.data ELSE detalleCompras
       /\ IF joined
          THEN /\ data' = Some(transformedData(selectedEmpresa[1], selectedPeriodo[1],
                                               locals.resumenResponse.data,
                                               locals.detalleResponse.data))
               /\ loading' = FALSE
               /\ calls' = [calls EXCEPT ![c] =
                    [IdleCall EXCEPT !.pc = "done", !.outcome = "resolved", !.sent = locals.sent,
                                     !.periodosResponse = locals.periodosResponse,
                                     !.returned = data']]
               /\ UNCHANGED error
          ELSE /\ calls' = [calls EXCEPT ![c] = locals]
               /\ UNCHANGED << loading, error, data >>

\* one of the two responses Promise.all waits for arrives: a failure rejects the
\* join at once, the second success completes it
GetAllArrival(c, locals, resp, joined) ==
  IF resp.status = "error"
  THEN /\ GetAllFail(c, locals, resp.err)
       /\ UNCHANGED << data, resumenCompras, detalleCompras >>
  ELSE IF joined
  THEN GetAllJoin(c, locals)
  ELSE /\ calls' = [calls EXCEPT ![c] = locals]
       /\ UNCHANGED << loading, error, data, resumenCompras, detalleCompras >>

\* the getResumenCompras response arrives
GetAllResumenResponse(c, resp) ==
  /\ calls[c].op = "getAll"
  /\ calls[c].pc = "join"
  /\ calls[c].resumenResponse.status = "none"
  /\ GetAllArrival(c, [calls[c] EXCEPT !.resumenResponse = resp], resp,
                   calls[c].detalleResponse.status = "ok")
  /\ UNCHANGED << empresas, selectedEmpresa, periodos, selectedPeriodo, tiposDte,
                  proveedores, currentMonth, currentYear, invocations >>

\* the getDetalleCompras response arrives
GetAllDetalleResponse(c, resp) ==
  /\ calls[c].op = "getAll"
  /\ calls[c].pc = "join"
  /\ calls[c].detalleResponse.status = "none"
  /\ GetAllArrival(c, [calls[c] EXCEPT !.detalleResponse = resp], resp,
                   calls[c].resumenResponse.status = "ok")
  /\ UNCHANGED << empresas, selectedEmpresa, periodos, selectedPeriodo, tiposDte,
                  proveedores, currentMonth, currentYear, invocations >>

(***************************************************************************)
(* The direct loaders: loadEmpresas, loadPeriodosByEmpresa,                *)
(* loadResumenCompras, loadDetalleCompras, loadTiposDte, loadProveedores.  *)
(***************************************************************************)
\* the loaders whose body has `loading.value = true` and a finally block
SetsLoading(op) ==
  op \in {"loadEmpresas", "loadPeriodosByEmpresa", "loadResumenCompras", "loadDetalleCompras"}

LoaderFallback(op) ==
  CASE op = "loadEmpresas" -> "Error loading empresas"
    [] op = "loadPeriodosByEmpresa" -> "Error loading periodos"
    [] op = "loadResumenCompras" -> "Error loading resumen de compras"
    [] op = "loadDetalleCompras" -> "Error loading detalle de compras"
    [] op = "loadTiposDte" -> "Error loading tipos DTE"
    [] op = "loadProveedores" -> "Error loading proveedores"
    [] OTHER -> ""

\* entry of a loader: the request is issued (the optional filters of
\* loadPeriodosByEmpresa, loadResumenCompras and loadDetalleCompras are absent)
LoaderStart(c, op) ==
  /\ Free(c)
  /\ op \in LoaderOps
  /\ loading' = IF SetsLoading(op) THEN TRUE ELSE loading
  /\ calls' = [calls EXCEPT ![c] =
       [IdleCall EXCEPT !.op = op, !.pc = "await", !.sent = {op}]]
  /\ invocations' = Invoked(c)
  /\ UNCHANGED << error, data, empresas, selectedEmpresa, periodos, selectedPeriodo,
                  resumenCompras, detalleCompras, tiposDte, proveedores,
                  currentMonth, currentYear >>

\* what the loader's request returns from the backend
LoaderData(cl) ==
  CASE cl.op = "loadEmpresas" -> EmpresasDb
    [] cl.op = "loadPeriodosByEmpresa" -> PeriodosDb("", cl.actualMonth)
    [] cl.op = "loadResumenCompras" -> ResumenDb(cl.periodoId)
    [] cl.op = "loadDetalleCompras" -> DetalleDb(cl.periodoId)
    [] cl.op = "loadTiposDte" -> TiposDteDb
    [] cl.op = "loadProveedores" -> ProveedoresDb
    [] OTHER -> << >>

\* a loader without its finally block
LoaderFinallyMissing(op) ==
  loading' = loading

\* the finally block of a loader, when it has one
LoaderFinally(op) ==
  loading' = IF SetsLoading(op) THEN FALSE ELSE loading

\* the loader's response arrives: the collection is replaced, or the message is
\* stored and the error rethrown
LoaderResponse(c, resp) ==
  /\ calls[c].op \in LoaderOps
  /\ calls[c].pc = "await"
  /\ LoaderFinally(calls[c].op)
  /\ IF resp.status = "ok"
     THEN /\ empresas' = IF calls[c].op = "loadEmpresas" THEN resp.data ELSE empresas
          /\ periodos' = IF calls[c].op = "loadPeriodosByEmpresa" THEN resp.data ELSE periodos
          /\ resumenCompras' = IF calls[c].op = "loadResumenCompras" THEN resp.data ELSE resumenCompras
          /\ detalleCompras' = IF calls[c].op = "loadDetalleCompras" THEN resp.data ELSE detalleCompras
          /\ tiposDte' = IF calls[c].op = "loadTiposDte" THEN resp.data ELSE tiposDte
          /\ proveedores' = IF calls[c].op = "loadProveedores" THEN resp.data ELSE proveedores
          /\ calls' = [calls EXCEPT ![c] = Settled(calls[c], "resolved", None)]
          /\ UNCHANGED error
     ELSE /\ error' = ErrorMessage(resp.err, LoaderFallback(calls[c].op))
          /\ calls' = [calls EXCEPT ![c] = Settled(calls[c], "rejected", None)]
          /\ UNCHANGED << empresas, periodos, resumenCompras, detalleCompras,
                          tiposDte, proveedores >>
  /\ UNCHANGED << data, selectedEmpresa, selectedPeriodo, currentMonth,
                  currentYear, invocations >>

(***************************************************************************)
(* Date selection.                                                         *)
(***************************************************************************)
setMonth(month) ==
  /\ currentMonth' = month
  /\ UNCHANGED << loading, error, data, empresas, selectedEmpresa, periodos,
                  selectedPeriodo, resumenCompras, detalleCompras, tiposDte,
                  proveedores, currentYear, calls, invocations >>

(***************************************************************************)
(* The annotation store (useNotasStore).  The repository holds two         *)
(* variants of it: the folio-keyed one (actions catch, record the message  *)
(* and return null/false) and the composite-key one (actions record the    *)
(* message and rethrow; its load-one action has no loading/error           *)
(* bookkeeping).  `variant` selects which one runs; a key is written folio *)
(* in both.                                                                *)
(***************************************************************************)
\* number of annotation-store invocations that may be in flight together
MaxNotasCalls == 2
\* cap on the length of the local notas list
MaxNotas == 2

NotasCalls == 1 .. MaxNotasCalls

Folios == {"101", "102"}
Comments == {"c1"}
Variants == {"folio", "composite"}

NotasErrors == {NotFoundErr}

Nota(id, folio, comentario, contabilizado, pagado) ==
  [notaId |-> id, folio |-> folio, comentario |-> comentario,
   contabilizado |-> contabilizado, pagado |-> pagado]

\* the id the backend assigns to the record of a key (never 0)
ServerId(folio) == IF folio = "101" THEN 1 ELSE 2

VARIABLES
  variant,          \* which variant of the store is running
  notasLoading,     \* loading = ref(false)
  notasError,       \* error = ref<string | null>(null)
  notas,            \* notas = ref<Notas[]>([])
  serverNotas,      \* the backend's annotations: folio -> None or Some(record)
  notasCalls        \* the store actions in flight: locals and position of each

notasVars == << variant, notasLoading, notasError, notas, serverNotas, notasCalls >>


NotasOps ==
  {"loadAllNotas", "loadNota", "createNota", "updateNota", "updateComment",
   "updateContabilizado", "deleteNota"}

IdleNotaCall ==
  [op |-> "none", pc |-> "idle", folio |-> "", comentario |-> "",
   contabilizado |-> FALSE, response |-> NoResponse, outcome |-> "none"]

NotasFree(c) == notasCalls[c].pc \in {"idle", "done"}

\* slot c is the first slot with no action in flight
NotasFirstFree(c) ==
  /\ NotasFree(c)
  /\ \A d \in NotasCalls : d < c => ~ NotasFree(d)

\* a settled invocation keeps only the outcome its caller sees
NotaSettled(outcome) == [IdleNotaCall EXCEPT !.pc = "done", !.outcome = outcome]

\* the backend already holds annotations when the page is opened
InitialServerNotas ==
  [f \in Folios |-> IF f = "101" THEN Some(Nota(ServerId(f), f, "", TRUE, TRUE))
                    ELSE Some(Nota(ServerId(f), f, "c1", FALSE, FALSE))]

InitNotas ==
  /\ variant \in Variants
  /\ notasLoading = FALSE
  /\ notasError = NullError
  /\ notas = << >>
  /\ serverNotas = InitialServerNotas
  /\ notasCalls = [c \in NotasCalls |-> IdleNotaCall]

(***************************************************************************)
(* Keyed lookup in the local list.                                         *)
(***************************************************************************)
Indices(folio) == {i \in 1 .. Len(notas) : notas[i].folio = folio}

Min(S) == CHOOSE x \in S : \A y \in S : x <= y
Max(S) == CHOOSE x \in S : \A y \in S : x >= y

\* notas.value.findIndex(n => n.folio === folio): the first match, 0 for -1
findIndex(folio) == IF Indices(folio) = {} THEN 0 ELSE Min(Indices(folio))

\* notasMap.get(folio): the map is filled in list order, so the last entry of a
\* key is the one it holds; 0 for undefined
getNotaByFolio(folio) == IF Indices(folio) = {} THEN 0 ELSE Max(Indices(folio))

\* a blind append, without the keyed lookup
AlwaysPush(nota) == Append(notas, nota)

\* if (index !== -1) notas[index] = nota else notas.push(nota)
ReplaceOrPush(nota) ==
  IF findIndex(nota.folio) # 0
  THEN [notas EXCEPT ![findIndex(nota.folio)] = nota]
  ELSE Append(notas, nota)

\* if (index !== -1) notas.splice(index, 1)
RemoveFirst(folio) ==
  IF findIndex(folio) # 0
  THEN [i \in 1 .. Len(notas) - 1 |->
          IF i < findIndex(folio) THEN notas[i] ELSE notas[i + 1]]
  ELSE notas

\* the error message a failed action stores
NotasErrorMessage(err, fallback) ==
  IF variant = "folio"
  THEN IF err.responseMessage # "" THEN err.responseMessage ELSE fallback
  ELSE ErrorMessage(err, fallback)

NotasFallback(op) ==
  CASE op = "loadAllNotas" -> "Error loading notas"
    [] op = "loadNota" -> "Error loading nota"
    [] op = "createNota" -> "Error creating nota"
    [] op = "updateNota" -> "Error updating nota"
    [] op = "updateComment" -> "Error updating comment"
    [] op = "updateContabilizado" -> "Error updating contabilizado status"
    [] op = "deleteNota" -> "Error deleting nota"
    [] OTHER -> ""

\* what a failed action gives its caller: the folio-keyed variant returns
\* null (false for deleteNota, nothing for loadAllNotas), the composite-key
\* variant rethrows
FailureOutcome == IF variant = "folio" THEN "returnedNull" ELSE "thrown"

(***************************************************************************)
(* The backend's annotation endpoints (notasApi).  A partial or full PUT   *)
(* creates the record when none exists; POST is refused for a key that     *)
(* exists; GET of one record is refused for a key that does not exist.     *)
(***************************************************************************)
SeqOfSet(S) ==
  LET RECURSIVE build(_)
      build(T) == IF T = {} THEN << >>
                  ELSE LET f == CHOOSE x \in T : \A y \in T : ServerId(x) <= ServerId(y)
                       IN << f >> \o build(T \ {f})
  IN build(S)

\* GET /api/notas
AllServerNotas(db) ==
  LET held == SeqOfSet({f \in Folios : db[f] # None})
  IN [i \in 1 .. Len(held) |-> db[held[i]][1]]

\* whether the backend accepts the request of invocation cl
ServerAccepts(db, cl, endpoint) ==
  CASE endpoint = "getNotaByFolio" -> db[cl.folio] # None
    [] endpoint = "createNota" -> db[cl.folio] = None
    [] OTHER -> TRUE

\* the record a PUT leaves behind
Upserted(db, cl, endpoint) ==
  LET old == IF db[cl.folio] # None THEN db[cl.folio][1]
             ELSE Nota(ServerId(cl.folio), cl.folio, "", FALSE, FALSE)
  IN CASE endpoint = "updateNota" ->
            [old EXCEPT !.comentario = cl.comentario, !.contabilizado = cl.contabilizado]
       [] endpoint = "updateNotaComment" -> [old EXCEPT !.comentario = cl.comentario]
       [] endpoint = "updateNotaContabilizado" -> [old EXCEPT !.contabilizado = cl.contabilizado]
       [] OTHER -> old

\* the backend's state after an accepted request
ServerAfter(db, cl, endpoint) ==
  CASE endpoint = "createNota" ->
         [db EXCEPT ![cl.folio] =
            Some(Nota(ServerId(cl.folio), cl.folio, cl.comentario, cl.contabilizado, FALSE))]
    [] endpoint \in {"updateNota", "updateNotaComment", "updateNotaContabilizado"} ->
         [db EXCEPT ![cl.folio] = Some(Upserted(db, cl, endpoint))]
    [] endpoint = "deleteNota" -> [db EXCEPT ![cl.folio] = None]
    [] OTHER -> db

\* the body of the response to an accepted request
ServerData(db, cl, endpoint) ==
  CASE endpoint = "getAllNotas" -> AllServerNotas(db)
    [] endpoint = "deleteNota" -> << >>
    [] OTHER -> ServerAfter(db, cl, endpoint)[cl.folio]

\* the endpoint an invocation is waiting for
Endpoint(cl) ==
  IF cl.pc = "reconSent" THEN "getNotaByFolio"
  ELSE CASE cl.op = "loadAllNotas" -> "getAllNotas"
         [] cl.op = "loadNota" -> "getNotaByFolio"
         [] cl.op = "updateComment" -> "updateNotaComment"
         [] cl.op = "updateContabilizado" -> "updateNotaContabilizado"
         [] OTHER -> cl.op

Replied(pc) == IF pc = "sent" THEN "replied" ELSE "reconReplied"

\* the backend serves the request of invocation c
ServerHandle(c) ==
  /\ notasCalls[c].pc \in {"sent", "reconSent"}
  /\ ServerAccepts(serverNotas, notasCalls[c], Endpoint(notasCalls[c]))
  /\ serverNotas' = ServerAfter(serverNotas, notasCalls[c], Endpoint(notasCalls[c]))
  /\ notasCalls' = [notasCalls EXCEPT
       ![c].pc = Replied(notasCalls[c].pc),
       ![c].response = OkResponse(ServerData(serverNotas, notasCalls[c], Endpoint(notasCalls[c])))]
  /\ UNCHANGED << variant, notasLoading, notasError, notas >>

\* the request of invocation c fails (refused by the backend or lost)
ServerFail(c, err) ==
  /\ notasCalls[c].pc \in {"sent", "reconSent"}
  /\ notasCalls' = [notasCalls EXCEPT
       ![c].pc = Replied(notasCalls[c].pc),
       ![c].response = ErrResponse(err, << >>)]
  /\ UNCHANGED << variant, notasLoading, notasError, notas, serverNotas >>

(***************************************************************************)
(* Actions of the annotation store.                                        *)
(***************************************************************************)
\* loadNotaByCompositeKey has no `loading.value = true; error.value = null`
EntryBookkeeping(op) == ~ (variant = "composite" /\ op = "loadNota")

\* entry of an action: loading/error bookkeeping, then the request is issued
NotasStart(c, op, folio, comentario, contabilizado) ==
  /\ NotasFirstFree(c)
  /\ op \in NotasOps
  /\ (op = "loadAllNotas") = (folio = "")
  /\ (comentario # "") = (op \in {"updateNota", "updateComment"})
  /\ contabilizado => op \in {"createNota", "updateNota", "updateContabilizado"}
  /\ notasLoading' = IF EntryBookkeeping(op) THEN TRUE ELSE notasLoading
  /\ notasError' = IF EntryBookkeeping(op) THEN NullError ELSE notasError
  /\ notasCalls' = [notasCalls EXCEPT ![c] =
       [IdleNotaCall EXCEPT !.op = op, !.pc = "sent", !.folio = folio,
                            !.comentario = comentario, !.contabilizado = contabilizado]]
  /\ UNCHANGED << variant, notas, serverNotas >>

\* the catch and finally blocks of an action
NotasFail(c, op) ==
  /\ notasError' = NotasErrorMessage(notasCalls[c].response.err, NotasFallback(op))
  /\ notasLoading' = IF EntryBookkeeping(op) THEN FALSE ELSE notasLoading
  /\ notasCalls' = [notasCalls EXCEPT ![c] = NotaSettled(FailureOutcome)]
  /\ UNCHANGED << variant, notas, serverNotas >>

\* the try block ran to its return, then the finally block
NotasSucceed(c, op, newNotas) ==
  /\ notas' = newNotas
  /\ notasLoading' = IF EntryBookkeeping(op) THEN FALSE ELSE notasLoading
  /\ notasCalls' = [notasCalls EXCEPT ![c] = NotaSettled("resolved")]
  /\ UNCHANGED << variant, notasError, serverNotas >>

Delivered(c, op) == notasCalls[c].op = op /\ notasCalls[c].pc = "replied"

loadAllNotas(c) ==
  /\ Delivered(c, "loadAllNotas")
  /\ IF notasCalls[c].response.status = "ok"
     THEN NotasSucceed(c, "loadAllNotas", notasCalls[c].response.data)
     ELSE NotasFail(c, "loadAllNotas")

loadNota(c) ==
  /\ Delivered(c, "loadNota")
  /\ IF notasCalls[c].response.status = "ok"
     THEN /\ findIndex(notasCalls[c].folio) = 0 => Len(notas) < MaxNotas
          /\ NotasSucceed(c, "loadNota", ReplaceOrPush(notasCalls[c].response.data[1]))
     ELSE NotasFail(c, "loadNota")

createNota(c) ==
  /\ Delivered(c, "createNota")
  /\ IF notasCalls[c].response.status = "ok"
     THEN /\ Len(notas) < MaxNotas
          /\ NotasSucceed(c, "createNota", Append(notas, notasCalls[c].response.data[1]))
     ELSE NotasFail(c, "createNota")

updateNota(c) ==
  /\ Delivered(c, "updateNota")
  /\ IF notasCalls[c].response.status = "ok"
     THEN /\ findIndex(notasCalls[c].folio) = 0 => Len(notas) < MaxNotas
          /\ NotasSucceed(c, "updateNota", ReplaceOrPush(notasCalls[c].response.data[1]))
     ELSE NotasFail(c, "updateNota")

deleteNota(c) ==
  /\ Delivered(c, "deleteNota")
  /\ IF notasCalls[c].response.status = "ok"
     THEN NotasSucceed(c, "deleteNota", RemoveFirst(notasCalls[c].folio))
     ELSE NotasFail(c, "deleteNota")

clearNotas ==
  /\ notas' = << >>
  /\ notasError' = NullError
  /\ UNCHANGED << variant, notasLoading, serverNotas, notasCalls >>

(***************************************************************************)
(* updateComment / updateContabilizado: the partial updates.               *)
(***************************************************************************)
\* the existing local annotation, patched in place
Patched(op, nota, cl) ==
  IF op = "updateComment" THEN [nota EXCEPT !.comentario = cl.comentario]
  ELSE [nota EXCEPT !.contabilizado = cl.contabilizado]

\* the local representation created when none exists: notaId 0, the other
\* field at its default (comentario undefined is "", pagado undefined is FALSE)
Placeholder(op, cl) ==
  IF op = "updateComment" THEN Nota(0, cl.folio, cl.comentario, FALSE, FALSE)
  ELSE Nota(0, cl.folio, "", cl.contabilizado, FALSE)

\* the PUT's response arrives: patch the local annotation, or append a
\* placeholder and issue the reconciliation fetch (load-one, called from inside
\* the action: the folio-keyed loadNotaByFolio does its own entry bookkeeping)
UpdateDeliver(c, op) ==
  /\ Delivered(c, op)
  /\ IF notasCalls[c].response.status = "ok"
     THEN IF getNotaByFolio(notasCalls[c].folio) # 0
          THEN NotasSucceed(c, op,
                 [notas EXCEPT ![getNotaByFolio(notasCalls[c].folio)] =
                    Patched(op, notas[getNotaByFolio(notasCalls[c].folio)], notasCalls[c])])
          ELSE /\ Len(notas) < MaxNotas
               /\ notas' = Append(notas, Placeholder(op, notasCalls[c]))
               /\ notasLoading' = IF EntryBookkeeping("loadNota") THEN TRUE ELSE notasLoading
               /\ notasError' = IF EntryBookkeeping("loadNota") THEN NullError ELSE notasError
               /\ notasCalls' = [notasCalls EXCEPT ![c].pc = "reconSent"]
               /\ UNCHANGED << variant, serverNotas >>
     ELSE NotasFail(c, op)

updateComment(c) == UpdateDeliver(c, "updateComment")

updateContabilizado(c) == UpdateDeliver(c, "updateContabilizado")

\* what the reconciliation fetch leaves in the error slot: load-one's catch
\* block stores its message before the caller's empty catch swallows the error
ReconcileError(err) == NotasErrorMessage(err, NotasFallback("loadNota"))

\* the reconciliation fetch settles: on success the server record replaces the
\* local entry of the key (or is appended); then the update action returns
Reconcile(c) ==
  /\ notasCalls[c].pc = "reconReplied"
  /\ IF notasCalls[c].response.status = "ok"
     THEN /\ findIndex(notasCalls[c].folio) = 0 => Len(notas) < MaxNotas
          /\ notas' = ReplaceOrPush(notasCalls[c].response.data[1])
          /\ UNCHANGED notasError
     ELSE /\ notasError' = ReconcileError(notasCalls[c].response.err)
          /\ UNCHANGED notas
  /\ notasLoading' = FALSE
  /\ notasCalls' = [notasCalls EXCEPT ![c] = NotaSettled("resolved")]
  /\ UNCHANGED << variant, serverNotas >>

(***************************************************************************)
(* The invoice list view (ListaFacturasView.vue).  Text is a sequence of   *)
(* characters, so that substring search and case folding are computed.     *)
(* The rows the view shows are the elements of                             *)
(* formsStore.data.compras.detalleCompras.                                 *)
(***************************************************************************)
\* number of detail rows the ledger holds
MaxRows == 2

RutA == << "7", "6", "-", "9" >>
RutB == << "7", "7", "-", "K" >>

\* one element of data.compras.detalleCompras (interface DetalleCompra)
Compra(rut, razon, folio, tipo, fecha, neto, iva, total, estado, comentario) ==
  [tipoDTEString |-> IF tipo = 33 THEN << "F", "a" >> ELSE << "N", "c" >>,
   tipoDTE |-> tipo, rutProveedor |-> rut, razonSocial |-> razon, folio |-> folio,
   fechaEmision |-> fecha, fechaRecepcion |-> fecha,
   montoNeto |-> neto, montoIvaRecuperable |-> iva, montoTotal |-> total,
   estado |-> estado, comentario |-> comentario,
   contabilizado |-> FALSE, pagado |-> FALSE]

\* the view of the ledger store that holds the rows
DataOf(rows) ==
  Some([caratula |-> [rutEmpresa |-> rutEmpresa, nombreMes |-> getMonthName(8),
                      mes |-> 8, anio |-> 2025, periodo |-> 202508],
        compras |-> [resumenes |-> << >>, detalleCompras |-> rows]])

\* formsStore.data?.compras.detalleCompras || []
StoreRows == IF data = None THEN << >> ELSE data[1].compras.detalleCompras

\* compra.folio.toString(): the key the annotation store is called with
FolioKey(folio) ==
  CASE folio = 101 -> "101"
    [] folio = 102 -> "102"
    [] OTHER -> ""

VARIABLES
  editingComment,      \* ref<string | null>(null): the key of the row being edited
  editingCommentText,  \* ref('')
  edits                \* the edit handlers in flight, by the store call they await

viewVars == << editingComment, editingCommentText, edits >>


IdleEdit == [kind |-> "none", row |-> 0, value |-> FALSE, text |-> ""]

\* a comment of the annotation model as the text of a row: a comment is one
\* symbol of text, no comment is the empty text
TextOf(comentario) == IF comentario = "" THEN << >> ELSE << comentario >>

\* compra.comentario || ''
CommentString(text) == IF text = << >> THEN "" ELSE text[1]

InitView ==
  /\ editingComment = None
  /\ editingCommentText = ""
  /\ edits = [c \in NotasCalls |-> IdleEdit]

\* `${compra.rutProveedor}-${compra.folio}`
EditKey(compra) == << compra.rutProveedor, compra.folio >>

\* startEditComment(compra), a click on the comment of a row that is not being
\* edited
startEditComment(i) ==
  /\ i \in 1 .. Len(StoreRows)
  /\ editingComment # Some(EditKey(StoreRows[i]))
  /\ editingComment' = Some(EditKey(StoreRows[i]))
  /\ editingCommentText' = CommentString(StoreRows[i].comentario)
  /\ UNCHANGED << edits, ledgerVars, notasVars >>

\* v-model on the comment input
inputComment(text) ==
  /\ editingComment # None
  /\ editingCommentText' = text
  /\ UNCHANGED << editingComment, edits, ledgerVars, notasVars >>

\* toggleContabilizado(compra) up to `await notasStore.updateContabilizado(...)`
toggleContabilizado(c, i) ==
  /\ i \in 1 .. Len(StoreRows)
  /\ NotasStart(c, "updateContabilizado", FolioKey(StoreRows[i].folio), "",
                ~ StoreRows[i].contabilizado)
  /\ edits' = [edits EXCEPT ![c] =
       [IdleEdit EXCEPT !.kind = "contabilizado", !.row = i,
                        !.value = ~ StoreRows[i].contabilizado]]
  /\ UNCHANGED << editingComment, editingCommentText, ledgerVars >>

\* saveComment(compra) up to `await notasStore.updateComment(...)`, called from
\* the comment input, which is rendered for the rows whose key is the one being
\* edited (a comment text has been typed)
saveComment(c, i) ==
  /\ i \in 1 .. Len(StoreRows)
  /\ editingComment = Some(EditKey(StoreRows[i]))
  /\ NotasStart(c, "updateComment", FolioKey(StoreRows[i].folio), editingCommentText, FALSE)
  /\ edits' = [edits EXCEPT ![c] =
       [IdleEdit EXCEPT !.kind = "comentario", !.row = i, !.text = editingCommentText]]
  /\ UNCHANGED << editingComment, editingCommentText, ledgerVars >>

\* the row as the handler leaves it after its await: the store call did not
\* throw, so the field of the row object is assigned
EditedRow(compra, edit) ==
  IF edit.kind = "contabilizado"
  THEN [compra EXCEPT !.contabilizado = edit.value]
  ELSE [compra EXCEPT !.comentario = TextOf(edit.text)]

\* the handlers whose store call settles in this step
SettlingEdits ==
  {c \in NotasCalls : edits[c].kind # "none" /\ notasCalls'[c].pc = "done"}

\* the code of the handlers after their await, run when the store call of one
\* of them settles (the catch block only logs)
EditContinuation ==
  /\ edits' = [c \in NotasCalls |-> IF c \in SettlingEdits THEN IdleEdit ELSE edits[c]]
  /\ IF \E c \in SettlingEdits : notasCalls'[c].outcome # "thrown"
     THEN LET c == CHOOSE d \in SettlingEdits : notasCalls'[d].outcome # "thrown"
          IN /\ data' = DataOf([StoreRows EXCEPT ![edits[c].row] = EditedRow(@, edits[c])])
             /\ editingComment' = IF edits[c].kind = "comentario" THEN None ELSE editingComment
             /\ editingCommentText' = IF edits[c].kind = "comentario" THEN "" ELSE editingCommentText
     ELSE UNCHANGED << data, editingComment, editingCommentText >>
  /\ UNCHANGED << loading, error, empresas, selectedEmpresa, periodos, selectedPeriodo,
                  resumenCompras, detalleCompras, tiposDte, proveedores, currentMonth,
                  currentYear, calls, invocations >>

\* the members of the object useNotasStore returns, by variant of the store
StoreMembers(v) ==
  {"loading", "error", "notas", "notasMap",
   "loadAllNotas", "createNota", "updateNota", "updateComment",
   "updateContabilizado", "deleteNota", "clearNotas"}
    \cup (IF v = "folio"
          THEN {"getNotaByFolio", "loadNotaByFolio"}
          ELSE {"getNotaByCompositeKey", "getCompositeKey", "loadNotaByCompositeKey"})

VARIABLES
  pagadoLog   \* the console line the last togglePagado wrote, and what it did

logVars == << pagadoLog >>

InitLog == pagadoLog = None

\* togglePagado(compra), the change of the paid checkbox of a row: the call
\* notasStore.updatePagado(...) is evaluated inside the try; when the store
\* object has no such member the call expression throws a TypeError, the
\* catch block logs it and the row is left alone. served is whether the server
\* accepts the update, for a store that has the member and throws on a failure.
togglePagado(i, served) ==
  /\ i \in 1 .. Len(StoreRows)
  /\ LET currentStatus == StoreRows[i].pagado
         newPagadoStatus == ~ currentStatus
     IN IF "updatePagado" \in StoreMembers(variant)
        THEN IF served
             THEN /\ data' = DataOf([StoreRows EXCEPT ![i].pagado = newPagadoStatus])
                  /\ pagadoLog' = Some([row |-> i, previous |-> currentStatus,
                                        requested |-> TRUE, line |-> "updated"])
             ELSE /\ pagadoLog' = Some([row |-> i, previous |-> currentStatus,
                                        requested |-> TRUE, line |-> "error"])
                  /\ UNCHANGED data
        ELSE /\ pagadoLog' = Some([row |-> i, previous |-> currentStatus,
                                   requested |-> FALSE, line |-> "error"])
             /\ UNCHANGED data
  /\ UNCHANGED << loading, error, empresas, selectedEmpresa, periodos, selectedPeriodo,
                  resumenCompras, detalleCompras, tiposDte, proveedores, currentMonth,
                  currentYear, calls, invocations, notasVars, viewVars >>

(***************************************************************************)
(* The live event channel (services/notificationService.ts) and the        *)
(* platform objects it uses: socket.io sockets, the notification           *)
(* permission, the notifications shown and the window.                     *)
(***************************************************************************)
\* number of sockets the service may create that are not yet closed
MaxSockets == 2
\* number of 'new_record' handlers that may wait for the permission prompt
MaxWaiting == 2
\* number of notifications created
MaxNotifications == 2

SocketIds == 1 .. MaxSockets

\* the folios of the records the push server announces
EventFolios == {"101", "102"}

VARIABLES
  socket,         \* private socket: Socket | null = null  (0 is null)
  sockets,        \* the state of every socket created by io(...)
  connected,      \* private connected = ref(false)
  permission,     \* Notification.permission
  waiting,        \* showBrowserNotification calls suspended in requestPermission()
  notifications,  \* the Notification objects created, in order of creation
  focused         \* whether the application window is in the foreground

channelVars == << socket, sockets, connected, permission, waiting, notifications, focused >>

InitChannel ==
  /\ socket = 0
  /\ sockets = [s \in SocketIds |-> "none"]
  /\ connected = FALSE
  /\ permission \in {"default", "granted", "denied"}
  /\ waiting = << >>
  /\ notifications = << >>
  /\ focused = TRUE

\* socket s exists and has not been closed: its event handlers can still run
Alive(s) == sockets[s] \in {"connecting", "connected", "reconnecting"}

\* this.socket?.connected
SocketConnected == socket # 0 /\ sockets[socket] = "connected"

\* connect(): nothing when the current socket is connected; otherwise a new
\* socket is created with io(url, {forceNew: true}), its four handlers are
\* registered and it becomes the current socket (the previous one is neither
\* disconnected nor are its handlers removed)
connect ==
  IF SocketConnected
  THEN UNCHANGED channelVars
  ELSE \E s \in SocketIds :
         /\ ~ Alive(s)
         /\ \A t \in SocketIds : t < s => Alive(t)
         /\ sockets' = [sockets EXCEPT ![s] = "connecting"]
         /\ socket' = s
         /\ UNCHANGED << connected, permission, waiting, notifications, focused >>

\* disconnect(): the current socket is closed and forgotten, connected is reset
disconnect ==
  /\ socket # 0
  /\ sockets' = [sockets EXCEPT ![socket] = "closed"]
  /\ socket' = 0
  /\ connected' = FALSE
  /\ UNCHANGED << permission, waiting, notifications, focused >>

\* socket s emits 'connect' (first connection or automatic reconnection)
OnConnect(s) ==
  /\ sockets[s] \in {"connecting", "reconnecting"}
  /\ sockets' = [sockets EXCEPT ![s] = "connected"]
  /\ connected' = TRUE
  /\ UNCHANGED << socket, permission, waiting, notifications, focused >>

\* socket s emits 'disconnect' (the server or the transport dropped it)
OnDisconnect(s) ==
  /\ sockets[s] = "connected"
  /\ sockets' = [sockets EXCEPT ![s] = "reconnecting"]
  /\ connected' = FALSE
  /\ UNCHANGED << socket, permission, waiting, notifications, focused >>

\* socket s emits 'connect_error' and keeps trying
OnConnectError(s) ==
  /\ sockets[s] \in {"connecting", "reconnecting"}
  /\ sockets' = [sockets EXCEPT ![s] = "reconnecting"]
  /\ connected' = FALSE
  /\ UNCHANGED << socket, permission, waiting, notifications, focused >>

\* a notification as created: shown, with its auto-close timer armed
\* (late: the event came while the service held no socket; asked: the handler
\* had to request the permission)
NewNotification(folio, late, asked) ==
  [tag |-> folio, state |-> "open", timer |-> TRUE, late |-> late, asked |-> asked]

\* a notification created without the setTimeout that closes it
ShownNoTimer(folio, late, asked) ==
  Append([n \in 1 .. Len(notifications) |->
            IF notifications[n].tag = folio
            THEN [notifications[n] EXCEPT !.state = "closed"] ELSE notifications[n]],
         [NewNotification(folio, late, asked) EXCEPT !.timer = FALSE])

\* new Notification(title, {tag: `sii-${folio}`, ...}) followed by setTimeout:
\* a shown notification with the same tag is replaced by the new one
Shown(folio, late, asked) ==
  Append([n \in 1 .. Len(notifications) |->
            IF notifications[n].tag = folio
            THEN [notifications[n] EXCEPT !.state = "closed"] ELSE notifications[n]],
         NewNotification(folio, late, asked))

\* showBrowserNotification without the permission check
AfterPermissionUnchecked(perm, folio, late, asked, constructed) ==
  IF constructed
  THEN /\ Len(notifications) < MaxNotifications
       /\ notifications' = Shown(folio, late, asked)
  ELSE UNCHANGED notifications

\* showBrowserNotification from `if (Notification.permission === 'granted')`
\* on, with the permission perm read there: the notification is constructed,
\* unless the constructor throws (the catch block logs); without the
\* permission a warning is logged
AfterPermission(perm, folio, late, asked, constructed) ==
  IF perm = "granted" /\ constructed
  THEN /\ Len(notifications) < MaxNotifications
       /\ notifications' = Shown(folio, late, asked)
  ELSE UNCHANGED notifications

\* socket s emits 'new_record': showBrowserNotification(data) runs up to its
\* first await, or to its end when the permission is already decided
OnNewRecord(s, folio, constructed) ==
  /\ sockets[s] = "connected"
  /\ IF permission = "default"
     THEN /\ Len(waiting) < MaxWaiting
          /\ waiting' = Append(waiting, [folio |-> folio, late |-> socket = 0])
          /\ UNCHANGED notifications
     ELSE /\ AfterPermission(permission, folio, socket = 0, FALSE, constructed)
          /\ UNCHANGED waiting
  /\ UNCHANGED << socket, sockets, connected, permission, focused >>

\* the waiting list without entry h
WithoutWaiting(h) ==
  [i \in 1 .. Len(waiting) - 1 |-> IF i < h THEN waiting[i] ELSE waiting[i + 1]]

\* Notification.requestPermission() of waiting handler h resolves: the user
\* has answered the prompt (or dismissed it: "default"), or the permission was
\* decided before; the handler goes on with Notification.permission
OnPermissionAnswer(h, answer, constructed) ==
  /\ h \in 1 .. Len(waiting)
  /\ permission' = IF permission = "default" THEN answer ELSE permission
  /\ AfterPermission(permission', waiting[h].folio, waiting[h].late, TRUE, constructed)
  /\ waiting' = WithoutWaiting(h)
  /\ UNCHANGED << socket, sockets, connected, focused >>

\* the 8 second timer of notification n fires: notification.close()
OnTimer(n) ==
  /\ n \in 1 .. Len(notifications)
  /\ notifications[n].timer
  /\ notifications' = [notifications EXCEPT ![n].timer = FALSE, ![n].state = "closed"]
  /\ UNCHANGED << socket, sockets, connected, permission, waiting, focused >>

\* the user clicks notification n: window.focus(); notification.close()
OnClick(n) ==
  /\ n \in 1 .. Len(notifications)
  /\ notifications[n].state = "open"
  /\ focused' = TRUE
  /\ notifications' = [notifications EXCEPT ![n].state = "closed"]
  /\ UNCHANGED << socket, sockets, connected, permission, waiting >>

\* the user moves to another window
WindowBlur ==
  /\ focused
  /\ focused' = FALSE
  /\ UNCHANGED << socket, sockets, connected, permission, waiting, notifications >>

(***************************************************************************)
(* The invoice list view's life cycle (ListaFacturasView.vue): onMounted   *)
(* probes the server, loads the reference data and the ledger, fetches the *)
(* call counter and starts its periodic refresh; onUnmounted clears the    *)
(* refresh.                                                                *)
(***************************************************************************)
\* the counter fetches started by the interval that may be in flight at once
MaxCounterFetches == 2

\* the counts the backend reports
CallCounts == {1, 2}

VARIABLES
  lifecycle,         \* the component: "created", "mounted" or "unmounted"
  mountPc,           \* where the onMounted callback stands
  isWakingUp,        \* ref(false)
  serverIsWarm,      \* ref(false)
  showWakeupButton,  \* ref(false)
  wakeupTimer,       \* the 7 s timeout of onMounted is pending
  counterInterval,   \* let counterInterval: number | null = null  (0 is null)
  intervalActive,    \* the platform's interval timer exists and was not cleared
  counterFetches,    \* fetchCallCount calls started by the interval, in flight
  apiCallCount,      \* ref<number | null>(null)
  lastCalledAt       \* ref<string | null>(null)

mountVars ==
  << lifecycle, mountPc, isWakingUp, serverIsWarm, showWakeupButton, wakeupTimer,
     counterInterval, intervalActive, counterFetches, apiCallCount, lastCalledAt >>

InitMount ==
  /\ lifecycle = "created"
  /\ mountPc = "idle"
  /\ isWakingUp = FALSE
  /\ serverIsWarm = FALSE
  /\ showWakeupButton = FALSE
  /\ wakeupTimer = FALSE
  /\ counterInterval = 0
  /\ intervalActive = FALSE
  /\ counterFetches = 0
  /\ apiCallCount = None
  /\ lastCalledAt = None

\* needsWakeup: no wake-up recorded yet (lastWakeupTime is set together with
\* serverIsWarm, and is recent while the view mounts)
needsWakeup == ~ serverIsWarm

\* what siiApi.getCallCount() answers: the count and, when the counter of
\* fetchSIIData is listed, the time of its last call; or a failure
CounterResponses ==
  {[ok |-> TRUE, count |-> n, last |-> l] : n \in CallCounts, l \in {None, Some("t1")}}
    \cup {[ok |-> FALSE, count |-> 0, last |-> None]}

\* fetchCallCount after its await: the count is stored; a failure keeps the
\* last known values
CallCountArrives(resp) ==
  IF resp.ok
  THEN /\ apiCallCount' = Some(resp.count)
       /\ lastCalledAt' = IF resp.last # None THEN resp.last ELSE lastCalledAt
  ELSE UNCHANGED << apiCallCount, lastCalledAt >>

\* onMounted up to the await of the health request of wakeUpServer(false)
onMounted ==
  /\ lifecycle = "created"
  /\ lifecycle' = "mounted"
  /\ mountPc' = "wakeup"
  /\ isWakingUp' = TRUE
  /\ UNCHANGED << serverIsWarm, showWakeupButton, wakeupTimer, counterInterval,
                  intervalActive, counterFetches, apiCallCount, lastCalledAt >>
  /\ UNCHANGED ledgerVars

\* the health request settles (ok: the server answered 2xx): wakeUpServer
\* finishes, the 7 s timeout is armed and loadTiposDte and loadProveedores are
\* started together under Promise.allSettled
HealthResponse(ok) ==
  /\ mountPc = "wakeup"
  /\ serverIsWarm' = (ok \/ serverIsWarm)
  /\ showWakeupButton' = IF ok THEN FALSE ELSE showWakeupButton
  /\ isWakingUp' = FALSE
  /\ wakeupTimer' = TRUE
  /\ mountPc' = "reference"
  /\ \A c \in LedgerCalls : calls[c].pc \in {"idle", "done"}
  /\ calls' = [c \in LedgerCalls |->
       IF c = 1 THEN [IdleCall EXCEPT !.op = "loadTiposDte", !.pc = "await",
                                      !.sent = {"loadTiposDte"}]
       ELSE IF c = 2 THEN [IdleCall EXCEPT !.op = "loadProveedores", !.pc = "await",
                                            !.sent = {"loadProveedores"}]
       ELSE calls[c]]
  /\ invocations' = << 1, 2 >>
  /\ UNCHANGED << loading, error, data, empresas, selectedEmpresa, periodos,
                  selectedPeriodo, resumenCompras, detalleCompras, tiposDte,
                  proveedores, currentMonth, currentYear >>
  /\ UNCHANGED << lifecycle, counterInterval, intervalActive, counterFetches,
                  apiCallCount, lastCalledAt >>

\* the 7 s timeout fires
WakeupButtonTimer ==
  /\ wakeupTimer
  /\ wakeupTimer' = FALSE
  /\ showWakeupButton' = IF ~ serverIsWarm \/ needsWakeup THEN TRUE ELSE showWakeupButton
  /\ UNCHANGED << lifecycle, mountPc, isWakingUp, serverIsWarm, counterInterval,
                  intervalActive, counterFetches, apiCallCount, lastCalledAt >>
  /\ UNCHANGED ledgerVars

\* no store action is in flight
LedgerQuiet == \A c \in LedgerCalls : calls[c].pc \in {"idle", "done"}

\* Promise.allSettled resumes, whatever the two loads came to:
\* refreshWithCurrentDate starts getAll(currentMonth, currentYear)
ReferenceSettled ==
  /\ mountPc = "reference"
  /\ LedgerQuiet
  /\ \E c \in LedgerCalls : GetAllStart(c, currentMonth, currentYear)
  /\ mountPc' = "ledger"
  /\ UNCHANGED << lifecycle, isWakingUp, serverIsWarm, showWakeupButton, wakeupTimer,
                  counterInterval, intervalActive, counterFetches, apiCallCount,
                  lastCalledAt >>

\* getAll has settled: a rejection goes to the catch of onMounted, which logs
\* and ends the callback; otherwise fetchCallCount is started
LedgerSettled ==
  /\ mountPc = "ledger"
  /\ LedgerQuiet
  /\ mountPc' = IF calls[invocations[Len(invocations)]].outcome = "rejected"
                THEN "failed" ELSE "counter"
  /\ UNCHANGED << lifecycle, isWakingUp, serverIsWarm, showWakeupButton, wakeupTimer,
                  counterInterval, intervalActive, counterFetches, apiCallCount,
                  lastCalledAt >>
  /\ UNCHANGED ledgerVars

\* the first fetchCallCount settles and window.setInterval(..., 30000) is
\* called: its handle goes to counterInterval
CounterResponse(resp) ==
  /\ mountPc = "counter"
  /\ CallCountArrives(resp)
  /\ counterInterval' = 1
  /\ intervalActive' = TRUE
  /\ mountPc' = "done"
  /\ UNCHANGED << lifecycle, isWakingUp, serverIsWarm, showWakeupButton, wakeupTimer,
                  counterFetches >>
  /\ UNCHANGED ledgerVars

\* the interval fires: fetchCallCount() is started
Tick ==
  /\ intervalActive
  /\ counterFetches < MaxCounterFetches
  /\ counterFetches' = counterFetches + 1
  /\ UNCHANGED << lifecycle, mountPc, isWakingUp, serverIsWarm, showWakeupButton,
                  wakeupTimer, counterInterval, intervalActive, apiCallCount,
                  lastCalledAt >>
  /\ UNCHANGED ledgerVars

\* a fetchCallCount started by the interval settles
TickResponse(resp) ==
  /\ counterFetches > 0
  /\ counterFetches' = counterFetches - 1
  /\ CallCountArrives(resp)
  /\ UNCHANGED << lifecycle, mountPc, isWakingUp, serverIsWarm, showWakeupButton,
                  wakeupTimer, counterInterval, intervalActive >>
  /\ UNCHANGED ledgerVars

\* onUnmounted: the interval is cleared if its handle has been stored
onUnmounted ==
  /\ lifecycle = "mounted"
  /\ lifecycle' = "unmounted"
  /\ intervalActive' = IF counterInterval # 0 THEN FALSE ELSE intervalActive
  /\ UNCHANGED << mountPc, isWakingUp, serverIsWarm, showWakeupButton, wakeupTimer,
                  counterInterval, counterFetches, apiCallCount, lastCalledAt >>
  /\ UNCHANGED ledgerVars

(***************************************************************************)
(* The filtered and sorted projection of the detail rows and its totals    *)
(* (ListaFacturasView.vue; ConsultasView.vue has the same pipeline without *)
(* the global search).  Text is a sequence of characters.                  *)
(***************************************************************************)
\* number of detail rows of the period shown
MaxListRows == 3

\* number of inputs (search box and filters) the user has filled in at once
MaxActive == 2

\* the characters of the texts, in the order of their UTF-16 code units
Chars ==
  << " ", "$", "-", ".", "0", "1", "2", "3", "4", "5", "6", "7", "8", "9",
     "A", "B", "E", "F", "K", "N", "O", "P", "a", "b", "c", "e", "f", "k", "n", "o", "p" >>

CharCode(ch) == CHOOSE i \in 1 .. Len(Chars) : Chars[i] = ch

\* String.prototype.toLowerCase, one character
LowerChar(ch) ==
  CASE ch = "A" -> "a"
    [] ch = "B" -> "b"
    [] ch = "E" -> "e"
    [] ch = "F" -> "f"
    [] ch = "K" -> "k"
    [] ch = "N" -> "n"
    [] ch = "O" -> "o"
    [] ch = "P" -> "p"
    [] OTHER -> ch

toLowerCase(s) == [i \in 1 .. Len(s) |-> LowerChar(s[i])]

\* String.prototype.includes
includes(s, t) ==
  \E i \in 0 .. Len(s) - Len(t) : SubSeq(s, i + 1, i + Len(t)) = t

RECURSIVE trimStart(_)
trimStart(s) ==
  IF s # << >> /\ s[1] = " " THEN trimStart(Tail(s)) ELSE s

RECURSIVE trimEnd(_)
trimEnd(s) ==
  IF s # << >> /\ s[Len(s)] = " " THEN trimEnd(SubSeq(s, 1, Len(s) - 1)) ELSE s

\* String.prototype.trim
trim(s) == trimEnd(trimStart(s))

\* Array.prototype.join(' ')
RECURSIVE join(_)
join(parts) ==
  IF parts = << >> THEN << >>
  ELSE IF Len(parts) = 1 THEN parts[1]
  ELSE parts[1] \o << " " >> \o join(Tail(parts))

\* a < b for strings: the first differing code unit decides, a proper prefix
\* is smaller
RECURSIVE StringLess(_, _)
StringLess(a, b) ==
  IF b = << >> THEN FALSE
  ELSE IF a = << >> THEN TRUE
  ELSE IF a[1] = b[1] THEN StringLess(Tail(a), Tail(b))
  ELSE CharCode(a[1]) < CharCode(b[1])

Digit(d) == Chars[d + 5]

DigitValue(ch) == CharCode(ch) - 5

\* Number.prototype.toString of a natural number
RECURSIVE toString(_)
toString(n) ==
  IF n < 10 THEN << Digit(n) >> ELSE toString(n \div 10) \o << Digit(n % 10) >>

\* Intl.NumberFormat('es-CL', {style: 'currency', currency: 'CLP'}).format of a
\* natural number: "$" and the digits, grouped in threes by "."
RECURSIVE Grouped(_)
Grouped(n) ==
  IF n < 1000 THEN toString(n)
  ELSE Grouped(n \div 1000)
         \o << ".", Digit((n % 1000) \div 100), Digit((n % 100) \div 10), Digit(n % 10) >>

formatCurrency(amount) == << "$" >> \o Grouped(amount)

\* the ISO text of a day of August 2025, as the backend and a date input
\* write it
IsoDate(day) ==
  << "2", "0", "2", "5", "-", "0", "8", "-", Digit(day \div 10), Digit(day % 10) >>

\* new Date(dateString).toLocaleDateString('es-CL'): day-month-year (the
\* browser's time zone is taken to be UTC)
formatDate(dateString) ==
  SubSeq(dateString, 9, 10) \o << "-" >> \o SubSeq(dateString, 6, 7) \o << "-" >>
    \o SubSeq(dateString, 1, 4)

\* new Date(dateString) for a day of August 2025: its time value, in days
NewDate(dateString) == DigitValue(dateString[9]) * 10 + DigitValue(dateString[10])

\* what v-model stores for a type="number" input: '' for an empty input, else
\* the number typed (None is '')
RECURSIVE NumberOf(_)
NumberOf(text) ==
  IF text = << >> THEN 0
  ELSE NumberOf(SubSeq(text, 1, Len(text) - 1)) * 10 + DigitValue(text[Len(text)])

looseToNumber(text) == IF text = << >> THEN None ELSE Some(NumberOf(text))

\* truthiness of a type="number" model value: '' and 0 are falsy
TruthyNumber(v) == v # None /\ v[1] # 0

VARIABLES
  globalSearch,   \* ref('')
  filters,        \* ref({rutProveedor: '', ..., montoMaximo: ''})
  sortConfig,     \* ref({field: 'fechaEmision', direction: 'desc'})
  projection,     \* the value of filteredDetalleCompras as rendered (None: not yet)
  totales         \* the value of totales as rendered

listVars == << globalSearch, filters, sortConfig, projection, totales >>

NoFilters ==
  [rutProveedor |-> << >>, razonSocial |-> << >>, tipoDte |-> << >>, estado |-> << >>,
   fechaDesde |-> << >>, fechaHasta |-> << >>, montoMinimo |-> None, montoMaximo |-> None]

\* totales over a list of rows
Sum(rows, field) ==
  LET RECURSIVE Acc(_)
      Acc(i) == IF i = 0 THEN 0 ELSE Acc(i - 1) + rows[i][field]
  IN  Acc(Len(rows))

Totales(compras) ==
  [totalDocumentos |-> Len(compras),
   montoTotal |-> Sum(compras, "montoTotal"),
   montoNeto |-> Sum(compras, "montoNeto"),
   ivaTotal |-> Sum(compras, "montoIvaRecuperable")]

InitList ==
  /\ globalSearch = << >>
  /\ filters = NoFilters
  /\ sortConfig = [field |-> "fechaEmision", direction |-> "desc"]
  /\ projection = None
  /\ totales = Totales(<< >>)

\* the text the global search looks into
searchableText(compra) ==
  toLowerCase(join(<< compra.tipoDTEString, compra.rutProveedor, compra.razonSocial,
                      toString(compra.folio), formatDate(compra.fechaEmision),
                      formatDate(compra.fechaRecepcion), formatCurrency(compra.montoNeto),
                      formatCurrency(compra.montoIvaRecuperable),
                      formatCurrency(compra.montoTotal), compra.estado,
                      compra.comentario >>))

\* the stages of the pipeline, each applied only when its input is truthy
BySearch(compras, search) ==
  IF trim(search) # << >>
  THEN SelectSeq(compras,
         LAMBDA compra : includes(searchableText(compra), trim(toLowerCase(search))))
  ELSE compras

ByRutProveedor(compras, f) ==
  IF f.rutProveedor # << >>
  THEN SelectSeq(compras,
         LAMBDA compra : includes(toLowerCase(compra.rutProveedor), toLowerCase(f.rutProveedor)))
  ELSE compras

ByRazonSocial(compras, f) ==
  IF f.razonSocial # << >>
  THEN SelectSeq(compras,
         LAMBDA compra : includes(toLowerCase(compra.razonSocial), toLowerCase(f.razonSocial)))
  ELSE compras

ByTipoDte(compras, f) ==
  IF f.tipoDte # << >>
  THEN SelectSeq(compras, LAMBDA compra : toString(compra.tipoDTE) = f.tipoDte)
  ELSE compras

ByEstado(compras, f) ==
  IF f.estado # << >>
  THEN SelectSeq(compras, LAMBDA compra : compra.estado = f.estado)
  ELSE compras

ByFechaDesde(compras, f) ==
  IF f.fechaDesde # << >>
  THEN SelectSeq(compras, LAMBDA compra : NewDate(compra.fechaEmision) >= NewDate(f.fechaDesde))
  ELSE compras

ByFechaHasta(compras, f) ==
  IF f.fechaHasta # << >>
  THEN SelectSeq(compras, LAMBDA compra : NewDate(compra.fechaEmision) <= NewDate(f.fechaHasta))
  ELSE compras

ByMontoMinimo(compras, f) ==
  IF TruthyNumber(f.montoMinimo)
  THEN SelectSeq(compras, LAMBDA compra : compra.montoTotal >= f.montoMinimo[1])
  ELSE compras

\* the maximum-amount stage losing the first row it lets through
ByMontoMaximoLosingOne(compras, f) ==
  IF TruthyNumber(f.montoMaximo)
  THEN LET kept == SelectSeq(compras, LAMBDA compra : compra.montoTotal <= f.montoMaximo[1])
       IN  IF kept = << >> THEN kept ELSE Tail(kept)
  ELSE compras

ByMontoMaximo(compras, f) ==
  IF TruthyNumber(f.montoMaximo)
  THEN SelectSeq(compras, LAMBDA compra : compra.montoTotal <= f.montoMaximo[1])
  ELSE compras

\* the search and the eight filters, in the order of the code
Filtered(compras, search, f) ==
  ByMontoMaximo(ByMontoMinimo(ByFechaHasta(ByFechaDesde(ByEstado(ByTipoDte(
    ByRazonSocial(ByRutProveedor(BySearch(compras, search), f), f), f), f), f), f), f), f)

\* no stage has replaced the array: compras is still the store's own array
IsStoreArray(search, f) ==
  /\ trim(search) = << >>
  /\ f.rutProveedor = << >> /\ f.razonSocial = << >>
  /\ f.tipoDte = << >> /\ f.estado = << >>
  /\ f.fechaDesde = << >> /\ f.fechaHasta = << >>
  /\ ~ TruthyNumber(f.montoMinimo) /\ ~ TruthyNumber(f.montoMaximo)

\* the fields the table sorts by that are text
TextFields ==
  {"tipoDTEString", "rutProveedor", "razonSocial", "fechaEmision", "fechaRecepcion", "estado"}

SortFields == {"fechaEmision", "montoTotal", "folio"}

\* the fields of a row that hold null or undefined
Missing(compra) == IF "missing" \in DOMAIN compra THEN compra.missing ELSE {}

\* the comparator of the sort: 0 when a value is missing, else by > and <
comparator(a, b, cfg) ==
  LET aValue == a[cfg.field]
      bValue == b[cfg.field]
      less(x, y) == IF cfg.field \in TextFields THEN StringLess(x, y) ELSE x < y
      comparison == IF cfg.field \in Missing(a) \cup Missing(b) THEN 0
                    ELSE IF less(bValue, aValue) THEN 1
                    ELSE IF less(aValue, bValue) THEN 0 - 1 ELSE 0
  IN  IF cfg.direction = "desc" THEN 0 - comparison ELSE comparison

\* an insertion that puts x before the elements it compares equal to
RECURSIVE InsertBeforeEquals(_, _, _)
InsertBeforeEquals(x, sorted, cfg) ==
  IF sorted = << >> THEN << x >>
  ELSE IF comparator(sorted[Len(sorted)], x, cfg) < 0 THEN Append(sorted, x)
  ELSE Append(InsertBeforeEquals(x, SubSeq(sorted, 1, Len(sorted) - 1), cfg),
              sorted[Len(sorted)])

\* x put into a sorted list, after the elements that do not compare greater
RECURSIVE Insert(_, _, _)
Insert(x, sorted, cfg) ==
  IF sorted = << >> THEN << x >>
  ELSE IF comparator(sorted[Len(sorted)], x, cfg) <= 0 THEN Append(sorted, x)
  ELSE Append(Insert(x, SubSeq(sorted, 1, Len(sorted) - 1), cfg), sorted[Len(sorted)])

\* Array.prototype.sort with the comparator: a stable sort
RECURSIVE sort(_, _)
sort(compras, cfg) ==
  IF compras = << >> THEN << >>
  ELSE Insert(compras[Len(compras)], sort(SubSeq(compras, 1, Len(compras) - 1), cfg), cfg)

\* filteredDetalleCompras
filteredDetalleCompras(compras, search, f, cfg) == sort(Filtered(compras, search, f), cfg)

\* totales computed over the store's rows
TotalesOfStore(compras, shown) == Totales(compras)

\* totales: computed over detalleCompras, which is filteredDetalleCompras
TotalesOf(compras, shown) == Totales(shown)

\* the view is rendered with the given search, filters and sort: the
\* projection and the totals are recomputed; sort() works in place, so when no
\* stage has replaced the array it is the store's array that is sorted
Rendered(search, f, cfg) ==
  LET shown == filteredDetalleCompras(StoreRows, search, f, cfg) IN
    /\ projection' = Some(shown)
    /\ totales' = TotalesOf(StoreRows, shown)
    /\ data' = IF data # None /\ IsStoreArray(search, f)
               THEN << [data[1] EXCEPT !.compras.detalleCompras = shown] >>
               ELSE data
    /\ UNCHANGED << loading, error, empresas, selectedEmpresa, periodos, selectedPeriodo,
                    resumenCompras, detalleCompras, tiposDte, proveedores, currentMonth,
                    currentYear, calls, invocations >>

\* the inputs that are filled in
ActiveInputs(search, f) ==
  {name \in {"rutProveedor", "razonSocial", "tipoDte", "estado", "fechaDesde",
             "fechaHasta"} : f[name] # << >>}
    \cup {name \in {"montoMinimo", "montoMaximo"} : f[name] # None}
    \cup (IF search # << >> THEN {"globalSearch"} ELSE {})

\* the first rendering of the loaded period
Render ==
  /\ projection = None
  /\ Rendered(globalSearch, filters, sortConfig)
  /\ UNCHANGED << globalSearch, filters, sortConfig >>

\* the user types into the search box
inputGlobalSearch(text) ==
  /\ projection # None
  /\ Cardinality(ActiveInputs(text, filters)) <= MaxActive
  /\ globalSearch' = text
  /\ Rendered(text, filters, sortConfig)
  /\ UNCHANGED << filters, sortConfig >>

\* the user sets one of the text, select or date filters
inputFilter(name, text) ==
  /\ projection # None
  /\ Cardinality(ActiveInputs(globalSearch, [filters EXCEPT ![name] = text])) <= MaxActive
  /\ filters' = [filters EXCEPT ![name] = text]
  /\ Rendered(globalSearch, filters', sortConfig)
  /\ UNCHANGED << globalSearch, sortConfig >>

\* the user types into an amount filter, a type="number" input
inputMonto(name, text) ==
  /\ projection # None
  /\ Cardinality(ActiveInputs(globalSearch,
                               [filters EXCEPT ![name] = looseToNumber(text)])) <= MaxActive
  /\ filters' = [filters EXCEPT ![name] = looseToNumber(text)]
  /\ Rendered(globalSearch, filters', sortConfig)
  /\ UNCHANGED << globalSearch, sortConfig >>

clearFilters ==
  /\ projection # None
  /\ globalSearch' = << >>
  /\ filters' = NoFilters
  /\ Rendered(<< >>, NoFilters, sortConfig)
  /\ UNCHANGED sortConfig

\* sortBy that keeps the direction when the field changes
sortByKeepingDirection(field) ==
  /\ projection # None
  /\ sortConfig' = IF sortConfig.field = field
                   THEN [sortConfig EXCEPT !.direction = IF @ = "asc" THEN "desc" ELSE "asc"]
                   ELSE [sortConfig EXCEPT !.field = field]
  /\ Rendered(globalSearch, filters, sortConfig')
  /\ UNCHANGED << globalSearch, filters >>

sortBy(field) ==
  /\ projection # None
  /\ sortConfig' = IF sortConfig.field = field
                   THEN [sortConfig EXCEPT !.direction = IF @ = "asc" THEN "desc" ELSE "asc"]
                   ELSE [field |-> field, direction |-> "asc"]
  /\ Rendered(globalSearch, filters, sortConfig')
  /\ UNCHANGED << globalSearch, filters >>

(***************************************************************************)
(* The sort of the projection applied twice: ascending, then descending on *)
(* the result (what two clicks on a column header do to the list).         *)
(***************************************************************************)
\* number of rows of the list sorted
MaxSortRows == 3

VARIABLES
  sortInput,    \* the rows before the first sort
  sortField,    \* sortConfig.field
  ascending,    \* the rows sorted ascending (None: not yet)
  descending    \* the ascending rows sorted descending (None: not yet)

sortVars == << sortInput, sortField, ascending, descending >>

InitSort ==
  /\ sortInput = << >>
  /\ sortField = "fechaEmision"
  /\ ascending = None
  /\ descending = None

\* compras.sort(...) with direction 'asc'
sortAscending ==
  /\ ascending = None
  /\ ascending' = Some(sort(sortInput, [field |-> sortField, direction |-> "asc"]))
  /\ UNCHANGED << sortInput, sortField, descending >>

\* compras.sort(...) with direction 'desc', on the rows sorted ascending
sortDescending ==
  /\ ascending # None
  /\ descending = None
  /\ descending' = Some(sort(ascending[1], [field |-> sortField, direction |-> "desc"]))
  /\ UNCHANGED << sortInput, sortField, ascending >>


(***************************************************************************)
(* Column visibility and the export of the list to a spreadsheet.          *)
(***************************************************************************)
Columns ==
  {"tipoDTE", "rutProveedor", "razonSocial", "folio", "fechaEmision", "fechaRecepcion",
   "montoNeto", "montoIva", "montoTotal", "estado", "contabilizado", "pagado",
   "comentario", "descargar"}

VARIABLES
  columnVisibility,  \* ref({tipoDTE: true, ..., descargar: false})
  exported           \* the workbook last written by exportToExcel (None: none)

tableVars == << columnVisibility, exported >>

\* columnVisibility as constructed
InitialVisibility == [c \in Columns |-> c # "descargar"]

InitTable ==
  /\ columnVisibility = InitialVisibility
  /\ exported = None

toggleColumn(column) ==
  /\ columnVisibility' = [columnVisibility EXCEPT ![column] = ~ @]
  /\ UNCHANGED << exported, listVars, ledgerVars >>

\* resetColumns that also shows the download column
resetColumnsAll ==
  /\ columnVisibility' = [c \in Columns |-> TRUE]
  /\ UNCHANGED << exported, listVars, ledgerVars >>

resetColumns ==
  /\ columnVisibility' =
       [tipoDTE |-> TRUE, rutProveedor |-> TRUE, razonSocial |-> TRUE, folio |-> TRUE,
        fechaEmision |-> TRUE, fechaRecepcion |-> TRUE, montoNeto |-> TRUE,
        montoIva |-> TRUE, montoTotal |-> TRUE, estado |-> TRUE, contabilizado |-> TRUE,
        pagado |-> TRUE, comentario |-> TRUE, descargar |-> FALSE]
  /\ UNCHANGED << exported, listVars, ledgerVars >>

showEssentialColumns ==
  /\ columnVisibility' =
       [tipoDTE |-> TRUE, rutProveedor |-> FALSE, razonSocial |-> TRUE, folio |-> TRUE,
        fechaEmision |-> TRUE, fechaRecepcion |-> TRUE, montoNeto |-> FALSE,
        montoIva |-> FALSE, montoTotal |-> TRUE, estado |-> TRUE, contabilizado |-> TRUE,
        pagado |-> TRUE, comentario |-> FALSE, descargar |-> FALSE]
  /\ UNCHANGED << exported, listVars, ledgerVars >>

showAllColumns ==
  /\ columnVisibility' = [c \in DOMAIN columnVisibility |-> TRUE]
  /\ UNCHANGED << exported, listVars, ledgerVars >>

\* the keys of an exported object, in the order they are written ("Razon
\* Social", "Fecha Emision", "Fecha Recepcion" and "Si" are written here
\* without their accents)
ExportKeys ==
  << "Tipo DTE", "RUT Proveedor", "Razon Social", "Folio", "Fecha Emision",
     "Fecha Recepcion", "Monto Neto", "IVA Recuperable", "Monto Total", "Estado",
     "Contabilizado", "Pagado", "Comentario" >>

\* one element of exportData: its keys and its values
ExportObject(compra) ==
  [keys |-> ExportKeys,
   values |-> << compra.tipoDTEString, compra.rutProveedor, compra.razonSocial,
                 compra.folio, formatDate(compra.fechaEmision),
                 formatDate(compra.fechaRecepcion), compra.montoNeto,
                 compra.montoIvaRecuperable, compra.montoTotal, compra.estado,
                 IF compra.contabilizado THEN "Si" ELSE "No",
                 IF compra.pagado THEN "Si" ELSE "No", compra.comentario >>]

\* exportData mapped from the store's rows
exportDataOfStore(shown, raw) == [i \in 1 .. Len(raw) |-> ExportObject(raw[i])]

\* exportData: detalleCompras.value.map(...)
exportData(shown, raw) == [i \in 1 .. Len(shown) |-> ExportObject(shown[i])]

\* XLSX.utils.json_to_sheet: the header row holds the keys of the objects (all
\* objects have the same keys here), so no object gives no header; one row of
\* values per object
json_to_sheet(objects) ==
  [header |-> IF objects = << >> THEN << >> ELSE objects[1].keys,
   rows |-> [i \in 1 .. Len(objects) |-> objects[i].values]]

\* ws['!cols']
colWidths == << 12, 15, 30, 12, 15, 15, 15, 15, 15, 12, 12, 10, 30 >>

\* exportToExcel(): the sheet 'Compras' is built from the rendered projection
\* and the file named after the period is written; an exception (written is
\* false) is caught and logged
exportToExcel(written) ==
  /\ projection # None
  /\ exported' =
       IF written
       THEN Some([sheet |-> json_to_sheet(exportData(projection[1], StoreRows)),
                  cols |-> colWidths,
                  period |-> IF data = None THEN << currentMonth, currentYear >>
                             ELSE << data[1].caratula.nombreMes, data[1].caratula.anio >>])
       ELSE exported
  /\ UNCHANGED << columnVisibility, listVars, ledgerVars >>

\* the state of the page outside the list, the edits, the channel and the
\* life cycle
(***************************************************************************)
(* The SII fetch: the store useSiiStore and the handler fetchSiiData of    *)
(* the invoice list view, with the refreshData and fetchCallCount it       *)
(* awaits.                                                                 *)
(***************************************************************************)
\* number of times the user starts fetchSiiData
MaxFetches == 2

FetchSlots == 1 .. MaxFetches

VARIABLES
  siiLoading,     \* state.loading
  siiError,       \* state.error
  lastFetchInfo,  \* state.lastFetchInfo
  fetches         \* the fetchSiiData handlers: position, locals, what each issued

siiVars == << siiLoading, siiError, lastFetchInfo, fetches >>

IdleFetch ==
  [pc |-> "idle", year |-> "", month |-> "", call |-> 0, issued |-> << >>,
   fetched |-> "none"]

InitSii ==
  /\ siiLoading = FALSE
  /\ siiError = NullError
  /\ lastFetchInfo = None
  /\ fetches = [s \in FetchSlots |-> IdleFetch]

SiiFallback == "Error al obtener datos de SII"

\* error instanceof Error ? error.message
\*   : (error.response?.data?.message || 'Error al obtener datos de SII')
SiiErrorMessage(err, isError) ==
  IF isError THEN err.message
  ELSE IF err.responseMessage # "" THEN err.responseMessage
  ELSE SiiFallback

\* what siiApi.fetchAndStore(year, month) settles with: the backend's answer or
\* an axios error (an Error whose message axios sets)
SiiResponses ==
  {[ok |-> TRUE, err |-> NoErr, isError |-> FALSE]}
    \cup {[ok |-> FALSE, err |-> e, isError |-> TRUE] : e \in {ServerErr, NetworkErr}}

\* wakeUpServer(false) up to its await, called by handler s whose record
\* becomes f: a wake-up in flight makes the call return at once, and the
\* handler goes on to its pause (onWait, onSkip are the positions)
WakeUpEntry(s, f, onWait, onSkip) ==
  /\ isWakingUp' = TRUE
  /\ fetches' = [fetches EXCEPT ![s] =
       [f EXCEPT !.pc = IF isWakingUp THEN onSkip ELSE onWait]]
  /\ UNCHANGED << lifecycle, mountPc, serverIsWarm, showWakeupButton, wakeupTimer,
                  counterInterval, intervalActive, counterFetches, apiCallCount,
                  lastCalledAt >>

\* siiStore.fetchAndStore(year, month) up to its await, called by handler s
\* whose record becomes f
fetchAndStore(s, f) ==
  /\ siiLoading' = TRUE
  /\ siiError' = NullError
  /\ fetches' = [fetches EXCEPT ![s] =
       [f EXCEPT !.pc = "fetching", !.year = currentYear, !.month = currentMonth,
                 !.issued = Append(@, "fetchAndStore")]]
  /\ UNCHANGED lastFetchInfo

\* the fetch button is enabled, or the retry button of the SII error is shown
FetchClickable ==
  \/ ~ (siiLoading \/ loading)
  \/ siiError \notin {NullError, ""}

\* fetchSiiData up to its first await: clearError, then the wake-up when one is
\* needed, else fetchAndStore with the store's current year and month
fetchSiiData(s) ==
  /\ lifecycle = "mounted"
  /\ FetchClickable
  /\ fetches[s].pc = "idle"
  /\ \A t \in FetchSlots : t < s => fetches[t].pc # "idle"
  /\ IF needsWakeup
     THEN /\ WakeUpEntry(s, fetches[s], "wakeup", "pause")
          /\ siiError' = NullError
          /\ UNCHANGED << siiLoading, lastFetchInfo >>
     ELSE /\ fetchAndStore(s, fetches[s])
          /\ UNCHANGED mountVars
  /\ UNCHANGED ledgerVars

\* the loads of refreshData from the given stage on, by handler s whose record
\* becomes f: loadTiposDte and loadProveedores when their lists are empty, then
\* refreshWithCurrentDate, i.e. getAll(currentMonth, currentYear)
RefreshLoads(s, f, stage) ==
  \E c \in LedgerCalls :
    IF stage = "tipos" /\ tiposDte = << >>
    THEN /\ LoaderStart(c, "loadTiposDte")
         /\ fetches' = [fetches EXCEPT ![s] = [f EXCEPT !.pc = "tipos", !.call = c]]
    ELSE IF stage \in {"tipos", "proveedores"} /\ proveedores = << >>
    THEN /\ LoaderStart(c, "loadProveedores")
         /\ fetches' = [fetches EXCEPT ![s] = [f EXCEPT !.pc = "proveedores", !.call = c]]
    ELSE /\ GetAllStart(c, currentMonth, currentYear)
         /\ fetches' = [fetches EXCEPT ![s] = [f EXCEPT !.pc = "ledger", !.call = c]]

\* refreshData up to its first await, called by handler s whose record
\* becomes f
refreshData(s, f) ==
  IF needsWakeup
  THEN /\ WakeUpEntry(s, [f EXCEPT !.issued = Append(@, "refreshData")],
                      "refreshWakeup", "refreshPause")
       /\ UNCHANGED ledgerVars
  ELSE /\ RefreshLoads(s, [f EXCEPT !.issued = Append(@, "refreshData")], "tipos")
       /\ UNCHANGED mountVars

\* fetchAndStore's catch and finally blocks without the rethrow: the message is
\* stored and the caller goes on as after a success
FetchAndStoreCatchNoThrow(s, resp) ==
  /\ siiError' = SiiErrorMessage(resp.err, resp.isError)
  /\ siiLoading' = FALSE
  /\ refreshData(s, [fetches[s] EXCEPT !.fetched = "failed"])
  /\ UNCHANGED lastFetchInfo

\* fetchAndStore's catch and finally blocks: the message is stored, a new
\* Error(message) is thrown and loading is reset; the catch of fetchSiiData
\* logs it and the handler ends
FetchAndStoreCatch(s, resp) ==
  /\ siiError' = SiiErrorMessage(resp.err, resp.isError)
  /\ siiLoading' = FALSE
  /\ fetches' = [fetches EXCEPT ![s] = [@ EXCEPT !.pc = "done", !.fetched = "failed"]]
  /\ UNCHANGED << lastFetchInfo, ledgerVars, mountVars >>

\* the request of fetchAndStore settles: on success lastFetchInfo is written,
\* loading is reset and fetchSiiData goes on with refreshData
FetchAndStoreResponse(s, resp) ==
  /\ fetches[s].pc = "fetching"
  /\ IF resp.ok
     THEN /\ lastFetchInfo' = Some([year |-> fetches[s].year, month |-> fetches[s].month,
                                    timestamp |-> s])
          /\ siiLoading' = FALSE
          /\ refreshData(s, [fetches[s] EXCEPT !.fetched = "ok"])
          /\ UNCHANGED siiError
     ELSE FetchAndStoreCatch(s, resp)

\* the health request of a wake-up started by handler s settles
SiiHealthResponse(s, ok) ==
  /\ fetches[s].pc \in {"wakeup", "refreshWakeup"}
  /\ serverIsWarm' = (ok \/ serverIsWarm)
  /\ showWakeupButton' = IF ok THEN FALSE ELSE showWakeupButton
  /\ isWakingUp' = FALSE
  /\ fetches' = [fetches EXCEPT ![s].pc =
       IF fetches[s].pc = "wakeup" THEN "pause" ELSE "refreshPause"]
  /\ UNCHANGED << lifecycle, mountPc, wakeupTimer, counterInterval, intervalActive,
                  counterFetches, apiCallCount, lastCalledAt >>
  /\ UNCHANGED << siiLoading, siiError, lastFetchInfo, ledgerVars >>

\* the pause after the wake-up is over: fetchSiiData calls fetchAndStore (2 s),
\* refreshData starts its loads (1 s)
SiiPauseOver(s) ==
  /\ fetches[s].pc \in {"pause", "refreshPause"}
  /\ IF fetches[s].pc = "pause"
     THEN /\ fetchAndStore(s, fetches[s])
          /\ UNCHANGED ledgerVars
     ELSE /\ RefreshLoads(s, fetches[s], "tipos")
          /\ UNCHANGED << siiLoading, siiError, lastFetchInfo >>
  /\ UNCHANGED mountVars

\* fetchCallCount() is called by handler s: refreshData has returned
CallCountIssued(s) ==
  fetches' = [fetches EXCEPT ![s] =
    [@ EXCEPT !.pc = "counter", !.issued = Append(@, "fetchCallCount")]]

\* the store action refreshData awaits has settled: a rejection goes to the
\* catch of refreshData, which logs, and refreshData returns; otherwise the
\* next load is started, and after getAll refreshData returns
RefreshSettled(s) ==
  /\ fetches[s].pc \in {"tipos", "proveedores", "ledger"}
  /\ calls[fetches[s].call].pc = "done"
  /\ IF fetches[s].pc = "ledger" \/ calls[fetches[s].call].outcome = "rejected"
     THEN /\ CallCountIssued(s)
          /\ UNCHANGED ledgerVars
     ELSE RefreshLoads(s, fetches[s],
                       IF fetches[s].pc = "tipos" THEN "proveedores" ELSE "ledger")
  /\ UNCHANGED << siiLoading, siiError, lastFetchInfo, mountVars >>

\* the fetchCallCount of handler s settles and fetchSiiData ends
SiiCounterResponse(s, resp) ==
  /\ fetches[s].pc = "counter"
  /\ CallCountArrives(resp)
  /\ fetches' = [fetches EXCEPT ![s].pc = "done"]
  /\ UNCHANGED << lifecycle, mountPc, isWakingUp, serverIsWarm, showWakeupButton,
                  wakeupTimer, counterInterval, intervalActive, counterFetches >>
  /\ UNCHANGED << siiLoading, siiError, lastFetchInfo, ledgerVars >>

pageVars == << sortVars, tableVars, logVars, siiVars >>

InitPage == InitSort /\ InitTable /\ InitLog /\ InitSii

(***************************************************************************)
(* Specifications.                                                         *)
(***************************************************************************)
\* the state outside the two stores
uiVars == << viewVars, channelVars, mountVars, listVars, pageVars >>

vars == << ledgerVars, notasVars, uiVars >>

\* the channel before the bell component is mounted
ChannelIdle == InitChannel /\ permission = "default"

Init ==
  InitLedger /\ InitNotas /\ InitView /\ ChannelIdle /\ InitMount /\ InitList /\ InitPage

\* the ledger store alone: the annotation store stays as constructed
InitLedgerOnly == Init /\ variant = "folio"

\* the steps of getAll, with the transport errors E
GetAllSteps(E) ==
  \/ \E c \in LedgerCalls : \E resp \in Responses(EmpresaDb, NoEmpresa, E) :
       GetAllEmpresaResponse(c, resp)
  \/ \E c \in LedgerCalls :
       \E resp \in Responses(PeriodosDb(calls[c].actualYear, calls[c].actualMonth), << >>, E) :
         GetAllPeriodosResponse(c, resp)
  \/ \E c \in LedgerCalls : \E resp \in Responses(ResumenDb(calls[c].periodoId), << >>, E) :
       GetAllResumenResponse(c, resp)
  \/ \E c \in LedgerCalls : \E resp \in Responses(DetalleDb(calls[c].periodoId), << >>, E) :
       GetAllDetalleResponse(c, resp)

\* overlapping period loads: getAll with any month and year, and date selection
NextGetAll ==
  /\ \/ \E c \in LedgerCalls, month \in Months \cup {""}, year \in Years \cup {""} :
          GetAllStart(c, month, year)
     \/ GetAllSteps(TransportErrors)
     \/ \E month \in Months : setMonth(month)
  /\ UNCHANGED << notasVars, uiVars >>

Spec == InitLedgerOnly /\ [][NextGetAll]_vars

\* all seven actions of the ledger store, loading the current date; a request
\* fails with a network error
NextLedger ==
  /\ \/ \E c \in LedgerCalls : GetAllStart(c, "", "")
     \/ GetAllSteps({NetworkErr})
     \/ \E c \in LedgerCalls, op \in LoaderOps : LoaderStart(c, op)
     \/ \E c \in LedgerCalls : \E resp \in Responses(LoaderData(calls[c]), << >>, {NetworkErr}) :
          LoaderResponse(c, resp)
  /\ UNCHANGED << notasVars, uiVars >>

SpecLedger == InitLedgerOnly /\ [][NextLedger]_vars

\* the steps of the annotation store's actions once invoked
NotasSteps ==
  \/ \E c \in NotasCalls : ServerHandle(c)
  \/ \E c \in NotasCalls, err \in NotasErrors : ServerFail(c, err)
  \/ \E c \in NotasCalls : loadAllNotas(c)
  \/ \E c \in NotasCalls : loadNota(c)
  \/ \E c \in NotasCalls : createNota(c)
  \/ \E c \in NotasCalls : updateNota(c)
  \/ \E c \in NotasCalls : updateComment(c)
  \/ \E c \in NotasCalls : updateContabilizado(c)
  \/ \E c \in NotasCalls : Reconcile(c)
  \/ \E c \in NotasCalls : deleteNota(c)

\* an action is invoked on one of the keys of F
NotasInvoke(c, F) ==
  \E op \in NotasOps, folio \in F \cup {""}, comentario \in Comments \cup {""},
     contabilizado \in BOOLEAN :
    NotasStart(c, op, folio, comentario, contabilizado)

\* annotation-store actions invoked at any time, overlapping, on one document
\* (the annotation of the other document is only loaded)
NextNotas ==
  /\ \/ \E c \in NotasCalls : NotasInvoke(c, {"101"})
     \/ clearNotas
     \/ NotasSteps
  /\ UNCHANGED << ledgerVars, uiVars >>

SpecNotas == Init /\ [][NextNotas]_vars

\* annotation-store actions awaited one at a time: an action is invoked only
\* when no other is in flight
NextNotasSeq ==
  /\ \/ \E c \in NotasCalls : (\A d \in NotasCalls : NotasFree(d)) /\ NotasInvoke(c, Folios)
     \/ (\A d \in NotasCalls : NotasFree(d)) /\ clearNotas
     \/ NotasSteps
  /\ UNCHANGED << ledgerVars, uiVars >>

SpecNotasSeq == Init /\ [][NextNotasSeq]_vars

\* the steps of the partial updates once invoked
UpdateSteps ==
  \/ \E c \in NotasCalls : ServerHandle(c)
  \/ \E c \in NotasCalls, err \in NotasErrors : ServerFail(c, err)
  \/ \E c \in NotasCalls : updateComment(c)
  \/ \E c \in NotasCalls : updateContabilizado(c)
  \/ \E c \in NotasCalls : Reconcile(c)

\* the rows of the ledger the annotations are edited on: documents of two
\* suppliers, two folios and two document types
EditRows ==
  {Compra(rut, << "a" >>, folio, tipo, IsoDate(15), 100, 19, 119, << "O", "k" >>, << >>) :
     rut \in {RutA, RutB}, folio \in {101, 102}, tipo \in {33, 61}}

\* the view shows a loaded period: MaxRows distinct rows, the first one a
\* document of supplier A with folio 101, the others any other documents; the
\* annotation store is the folio-keyed one, the one the view's calls fit
InitEdit ==
  /\ InitStore
  /\ \E rows \in [1 .. MaxRows -> EditRows] :
       /\ \A i, j \in 1 .. MaxRows : rows[i] = rows[j] => i = j
       /\ rows[1].rutProveedor = RutA /\ rows[1].folio = 101 /\ rows[1].tipoDTE = 33
       /\ data = DataOf(rows)
  /\ InitNotas
  /\ variant = "folio"
  /\ InitView
  /\ ChannelIdle
  /\ InitMount
  /\ InitList
  /\ InitPage

\* no annotation-store action is in flight
NotasQuiet == \A d \in NotasCalls : NotasFree(d)

\* the user edits annotations in the invoice list, one edit at a time
NextEdit ==
  /\ \/ \E i \in 1 .. MaxRows : startEditComment(i)
     \/ \E text \in Comments : inputComment(text)
     \/ \E c \in NotasCalls, i \in 1 .. MaxRows : NotasQuiet /\ toggleContabilizado(c, i)
     \/ \E c \in NotasCalls, i \in 1 .. MaxRows : NotasQuiet /\ saveComment(c, i)
     \/ UpdateSteps /\ EditContinuation
  /\ UNCHANGED << channelVars, mountVars, listVars, pageVars >>

SpecEdit == InitEdit /\ [][NextEdit]_vars

\* the user changes the paid checkbox of the rows, and opens and types comments
NextPagado ==
  /\ \/ \E i \in 1 .. MaxRows, served \in BOOLEAN : togglePagado(i, served)
     \/ /\ \/ \E i \in 1 .. MaxRows : startEditComment(i)
           \/ \E text \in Comments : inputComment(text)
        /\ UNCHANGED logVars
  /\ UNCHANGED << channelVars, mountVars, listVars, sortVars, tableVars, siiVars >>

\* the view shows a loaded period as in InitEdit, over either variant of the
\* annotation store
InitPagado ==
  /\ InitStore
  /\ \E rows \in [1 .. MaxRows -> EditRows] :
       /\ \A i, j \in 1 .. MaxRows : rows[i] = rows[j] => i = j
       /\ rows[1].rutProveedor = RutA /\ rows[1].folio = 101 /\ rows[1].tipoDTE = 33
       /\ data = DataOf(rows)
  /\ InitNotas
  /\ variant \in Variants
  /\ InitView
  /\ ChannelIdle
  /\ InitMount
  /\ InitList
  /\ InitPage

SpecPagado == InitPagado /\ [][NextPagado]_vars

\* the bell component connects and disconnects the channel; sockets, the
\* permission prompt, timers and the user act at any time
ChannelSteps ==
  \/ connect
  \/ disconnect
  \/ \E s \in SocketIds : OnConnect(s)
  \/ \E s \in SocketIds : OnDisconnect(s)
  \/ \E s \in SocketIds : OnConnectError(s)
  \/ \E s \in SocketIds, folio \in EventFolios, constructed \in BOOLEAN :
       OnNewRecord(s, folio, constructed)
  \/ \E h \in 1 .. MaxWaiting, answer \in {"default", "granted", "denied"},
        constructed \in BOOLEAN :
       OnPermissionAnswer(h, answer, constructed)
  \/ \E n \in 1 .. MaxNotifications : OnTimer(n)
  \/ \E n \in 1 .. MaxNotifications : OnClick(n)
  \/ WindowBlur

NextChannel ==
  ChannelSteps
    /\ UNCHANGED << ledgerVars, notasVars, viewVars, mountVars, listVars, pageVars >>

InitChannelOnly ==
  InitLedger /\ InitNotas /\ variant = "folio" /\ InitView /\ InitChannel /\ InitMount
    /\ InitList /\ InitPage
  /\ InitPage

SpecChannel == InitChannelOnly /\ [][NextChannel]_vars

\* a timer that is armed fires
TimersFire == \A n \in 1 .. MaxNotifications : WF_channelVars(OnTimer(n))

SpecChannelLive == SpecChannel /\ TimersFire

\* the view is mounted and unmounted once; requests settle, timers fire and the
\* user leaves at any time; a request fails with a network error
NextMount ==
  /\ \/ onMounted
     \/ \E ok \in BOOLEAN : HealthResponse(ok)
     \/ WakeupButtonTimer
     \/ /\ \E c \in LedgerCalls :
             \E resp \in Responses(LoaderData(calls[c]), << >>, {NetworkErr}) :
               LoaderResponse(c, resp)
        /\ UNCHANGED mountVars
     \/ ReferenceSettled
     \/ GetAllSteps({NetworkErr}) /\ UNCHANGED mountVars
     \/ LedgerSettled
     \/ \E resp \in CounterResponses : CounterResponse(resp)
     \/ Tick
     \/ \E resp \in CounterResponses : TickResponse(resp)
     \/ onUnmounted
  /\ UNCHANGED << notasVars, viewVars, channelVars, listVars, pageVars >>

SpecMount == InitLedgerOnly /\ [][NextMount]_vars

\* the view after onMounted has ended in its catch block: the health request
\* was answered or not, the reference lists were loaded or not and getAll was
\* rejected at its first request, so no interval was started
InitFetch ==
  /\ loading = FALSE
  /\ error = ErrorMessage(NetworkErr, GetAllFallback)
  /\ data = None
  /\ empresas = << >>
  /\ selectedEmpresa = None
  /\ periodos = << >>
  /\ selectedPeriodo = None
  /\ resumenCompras = << >>
  /\ detalleCompras = << >>
  /\ tiposDte \in {<< >>, TiposDteDb}
  /\ proveedores \in {<< >>, ProveedoresDb}
  /\ currentMonth = "08"
  /\ currentYear = "2025"
  /\ calls = [c \in LedgerCalls |-> IdleCall]
  /\ invocations = << >>
  /\ InitNotas
  /\ variant = "folio"
  /\ InitView
  /\ ChannelIdle
  /\ lifecycle = "mounted"
  /\ mountPc = "failed"
  /\ isWakingUp = FALSE
  /\ serverIsWarm \in BOOLEAN
  /\ showWakeupButton = ~ serverIsWarm
  /\ wakeupTimer = FALSE
  /\ counterInterval = 0
  /\ intervalActive = FALSE
  /\ counterFetches = 0
  /\ apiCallCount = None
  /\ lastCalledAt = None
  /\ InitList
  /\ InitPage

\* the user starts the SII fetch, also while an earlier one is under way;
\* requests settle and pauses end at any time; a ledger request fails with a
\* network error
NextFetch ==
  /\ \/ \E s \in FetchSlots : fetchSiiData(s)
     \/ \E s \in FetchSlots, ok \in BOOLEAN : SiiHealthResponse(s, ok)
     \/ \E s \in FetchSlots : SiiPauseOver(s)
     \/ \E s \in FetchSlots, resp \in SiiResponses : FetchAndStoreResponse(s, resp)
     \/ /\ \E c \in LedgerCalls :
             \E resp \in Responses(LoaderData(calls[c]), << >>, {NetworkErr}) :
               LoaderResponse(c, resp)
        /\ UNCHANGED << mountVars, siiVars >>
     \/ GetAllSteps({NetworkErr}) /\ UNCHANGED << mountVars, siiVars >>
     \/ \E s \in FetchSlots : RefreshSettled(s)
     \/ \E s \in FetchSlots, resp \in CounterResponses : SiiCounterResponse(s, resp)
  /\ UNCHANGED << notasVars, viewVars, channelVars, listVars, sortVars, tableVars, logVars >>

SpecFetch == InitFetch /\ [][NextFetch]_vars

\* the texts of the rows and of the filters
Acme == << "A", "c" >>
Beta == << "B", "e" >>
EstadoOk == << "O", "k" >>
EstadoNo == << "N", "o" >>

\* the documents of the period shown: net, tax and total of 100, 200 and 300
ListRows ==
  {Compra(RutA, Acme, 101, 33, IsoDate(14), 84, 16, 100, EstadoOk, << >>),
   Compra(RutB, Beta, 102, 61, IsoDate(15), 168, 32, 200, EstadoOk, << "c", "a" >>),
   Compra(RutA, Beta, 103, 33, IsoDate(16), 252, 48, 300, EstadoNo, << >>),
   Compra(RutB, Acme, 104, 61, IsoDate(15), 84, 16, 100, EstadoNo, << >>)}

\* what the user types into the search box
SearchTexts == {<< >>, << " " >>, << "$", "2", "0", "0" >>, << "B", "E", " " >>}

\* what the user puts into each text, select and date filter
FilterTexts(name) ==
  CASE name = "rutProveedor" -> {<< >>, << "k" >>}
    [] name = "razonSocial" -> {<< >>, << "A", "C" >>}
    [] name = "tipoDte" -> {<< >>, << "3", "3" >>}
    [] name = "estado" -> {<< >>, EstadoOk}
    [] name = "fechaDesde" -> {<< >>, IsoDate(15)}
    [] name = "fechaHasta" -> {<< >>, IsoDate(15)}

TextFilters == {"rutProveedor", "razonSocial", "tipoDte", "estado", "fechaDesde", "fechaHasta"}

\* what the user types into the amount filters
MontoTexts(name) ==
  IF name = "montoMinimo" THEN {<< >>, << "2", "0", "0" >>}
  ELSE {<< >>, << "0" >>, << "2", "0", "0" >>}

\* the view shows a loaded period of MaxListRows distinct documents, in the
\* order the backend sent them: by folio
InitListView ==
  /\ InitStore
  /\ \E rows \in [1 .. MaxListRows -> ListRows] :
       /\ \A i, j \in 1 .. MaxListRows : i < j => rows[i].folio < rows[j].folio
       /\ data = DataOf(rows)
  /\ InitNotas
  /\ variant = "folio"
  /\ InitView
  /\ ChannelIdle
  /\ InitMount
  /\ InitList
  /\ InitPage

\* the user searches, filters and sorts the list
NextList ==
  /\ \/ Render
     \/ \E text \in SearchTexts : inputGlobalSearch(text)
     \/ \E name \in TextFilters : \E text \in FilterTexts(name) : inputFilter(name, text)
     \/ \E name \in {"montoMinimo", "montoMaximo"} : \E text \in MontoTexts(name) :
          inputMonto(name, text)
     \/ clearFilters
     \/ \E field \in SortFields : sortBy(field)
  /\ UNCHANGED << notasVars, viewVars, channelVars, mountVars, pageVars >>

SpecList == InitListView /\ [][NextList]_vars

\* the rows sorted: the documents of the period and one the backend sent
\* without a reception date
SortRows ==
  ListRows \cup
    {Compra(RutA, Acme, 105, 33, IsoDate(16), 252, 48, 300, EstadoOk, << >>)
       @@ [missing |-> {"fechaRecepcion"}]}

\* the columns the list is sorted by
SortColumns == {"fechaEmision", "fechaRecepcion", "montoTotal", "folio"}

\* any list of up to MaxSortRows distinct rows, in any order, and any column
InitSortOnly ==
  /\ InitLedger
  /\ InitNotas
  /\ variant = "folio"
  /\ InitView
  /\ ChannelIdle
  /\ InitMount
  /\ InitList
  /\ \E n \in 0 .. MaxSortRows : \E rows \in [1 .. n -> SortRows] :
       /\ \A i, j \in 1 .. n : rows[i] = rows[j] => i = j
       /\ sortInput = rows
  /\ sortField \in SortColumns
  /\ ascending = None
  /\ descending = None
  /\ InitTable
  /\ InitLog
  /\ InitSii

NextSort ==
  /\ \/ sortAscending
     \/ sortDescending
  /\ UNCHANGED << ledgerVars, notasVars, viewVars, channelVars, mountVars, listVars,
                  tableVars, logVars, siiVars >>

SpecSort == InitSortOnly /\ [][NextSort]_vars

\* what the user types into the search box of the table: nothing, a text of
\* one row, a text of no row
TableSearchTexts == {<< >>, << "$", "2", "0", "0" >>, << "9", "9", "9" >>}

\* the columns the user toggles one by one
ToggledColumns == {"rutProveedor", "descargar"}

\* the user searches and sorts the list, shows and hides columns and exports
NextTable ==
  /\ \/ /\ \/ Render
           \/ \E text \in TableSearchTexts : inputGlobalSearch(text)
           \/ clearFilters
           \/ \E field \in SortFields : sortBy(field)
        /\ UNCHANGED tableVars
     \/ \E column \in ToggledColumns : toggleColumn(column)
     \/ resetColumns
     \/ showEssentialColumns
     \/ showAllColumns
     \/ \E written \in BOOLEAN : exportToExcel(written)
  /\ UNCHANGED << notasVars, viewVars, channelVars, mountVars, sortVars, logVars,
                  siiVars >>

SpecTable == InitListView /\ [][NextTable]_vars

(***************************************************************************)
(* Properties of the ledger store.                                         *)
(***************************************************************************)
InFlight(cl) == cl.pc \notin {"idle", "done"}

\* invocation c starts in this step
Starts(c) == ~ InFlight(calls[c]) /\ InFlight(calls'[c])

\* invocation c settles in this step
Finishes(c) == InFlight(calls[c]) /\ calls'[c].pc = "done"

\* C1: when getAll's periods request succeeds with zero periods, the call is
\* rejected with the "no periods" domain error, the error slot holds that
\* non-empty message and loading is false when it completes, and the call has
\* issued neither the summary nor the detail request.
C1_NoPeriodosFails ==
  [][\A c \in LedgerCalls :
       (/\ calls[c].op = "getAll"
        /\ calls[c].pc = "periodos"
        /\ calls'[c].pc # "periodos"
        /\ calls'[c].periodosResponse = OkResponse(<< >>))
       => /\ calls'[c].pc = "done"
          /\ calls'[c].outcome = "rejected"
          /\ error' = NoPeriodosMessage
          /\ error' \notin {NullError, ""}
          /\ loading' = FALSE
          /\ calls'[c].sent \cap {"resumen", "detalle"} = {}]_vars

C1_Witness ==
  \E c \in LedgerCalls :
    /\ calls[c].pc = "done"
    /\ calls[c].outcome = "rejected"
    /\ calls[c].periodosResponse = OkResponse(<< >>)
    /\ calls[c].sent = {"empresa", "periodos"}
    /\ error = NoPeriodosMessage
    /\ loading = FALSE

\* C2: within one getAll the summary and the detail request are issued
\* together, before either response is awaited; data, resumenCompras and
\* detalleCompras are written only by the step in which the second of the two
\* responses arrives; a call that is rejected writes none of the three.
C2_FanOutJoin ==
  /\ [](\A c \in LedgerCalls :
          /\ ("resumen" \in calls[c].sent) = ("detalle" \in calls[c].sent)
          /\ (calls[c].resumenResponse.status # "none" \/ calls[c].detalleResponse.status # "none")
               => {"resumen", "detalle"} \subseteq calls[c].sent)
  /\ [][\A c \in LedgerCalls :
          (calls[c].op = "getAll" /\ InFlight(calls[c]) /\ calls'[c] # calls[c])
          => /\ (data' # data \/ resumenCompras' # resumenCompras \/ detalleCompras' # detalleCompras)
                  => /\ calls[c].pc = "join"
                     /\ \/ calls[c].resumenResponse.status = "ok"
                        \/ calls[c].detalleResponse.status = "ok"
                     /\ calls'[c].outcome = "resolved"
             /\ calls'[c].outcome = "rejected"
                  => UNCHANGED << data, resumenCompras, detalleCompras >>]_vars

\* one response of the join has arrived and nothing has been written yet
C2_Witness ==
  \E c \in LedgerCalls :
    /\ calls[c].pc = "join"
    /\ calls[c].resumenResponse.status = "ok"
    /\ calls[c].detalleResponse.status = "none"
    /\ data = None
    /\ resumenCompras = << >>
    /\ detalleCompras = << >>

\* C3 as stated: every one of the seven actions sets loading true when it
\* starts and false when it finishes.
C3_AllSevenSetLoading ==
  [][\A c \in LedgerCalls :
       /\ Starts(c) => loading' = TRUE
       /\ Finishes(c) => loading' = FALSE]_vars

\* C3 amended: getAll, loadEmpresas, loadPeriodosByEmpresa, loadResumenCompras
\* and loadDetalleCompras set loading true when they start and false when they
\* finish, on success and on failure alike; loadTiposDte and loadProveedores
\* never change the loading flag.
C3_FiveSetLoading ==
  [][\A c \in LedgerCalls :
       /\ (Starts(c) /\ calls'[c].op \notin {"loadTiposDte", "loadProveedores"})
            => loading' = TRUE
       /\ (Finishes(c) /\ calls[c].op \notin {"loadTiposDte", "loadProveedores"})
            => loading' = FALSE
       /\ ((Starts(c) /\ calls'[c].op \in {"loadTiposDte", "loadProveedores"})
           \/ (Finishes(c) /\ calls[c].op \in {"loadTiposDte", "loadProveedores"}))
            => loading' = loading]_vars

\* a loader has failed and left loading false, while loadTiposDte is in flight
\* and has not set it
C3_Witness ==
  \E c, d \in LedgerCalls :
    /\ calls[c].pc = "done"
    /\ calls[c].outcome = "rejected"
    /\ calls[c].sent \subseteq {"loadEmpresas", "loadPeriodosByEmpresa",
                                "loadResumenCompras", "loadDetalleCompras"}
    /\ calls[d].op = "loadTiposDte"
    /\ InFlight(calls[d])
    /\ loading = FALSE

\* C4: after an action completes successfully with no other action in flight
\* the error slot is empty.
C4_ErrorClearedOnSuccess ==
  [][\A c \in LedgerCalls :
       (/\ Finishes(c)
        /\ calls'[c].outcome = "resolved"
        /\ \A d \in LedgerCalls : ~ InFlight(calls'[d]))
       => error' = NullError]_vars

\* C5: overlapping getAll calls are not exclusive and the last response wins:
\* data changes only when a getAll call completes its join, and the call that
\* completes installs its own result (the rows of its own period), whatever
\* another call wrote before and whichever call was invoked last.
C5_LastResponseWins ==
  [][/\ \A c \in LedgerCalls :
          (calls[c].pc = "join" /\ calls'[c].pc = "done" /\ calls'[c].outcome = "resolved")
          => /\ data' = calls'[c].returned
             /\ data' # None
             /\ data'[1].compras.detalleCompras
                  = mapDetalles(DetalleDb(calls[c].periodoId))
             /\ data'[1].compras.resumenes
                  = mapResumenes(ResumenDb(calls[c].periodoId))
     /\ data' # data
          => \E c \in LedgerCalls :
               calls[c].pc = "join" /\ calls'[c].pc = "done" /\ calls'[c].outcome = "resolved"]_vars

\* two getAll calls of different periods have both succeeded; data is the
\* result of the one invoked first, which therefore completed last
C5_Witness ==
  \E a, b \in LedgerCalls :
    /\ invocations = << a, b >>
    /\ calls[a].pc = "done" /\ calls[a].outcome = "resolved" /\ calls[a].returned # None
    /\ calls[b].pc = "done" /\ calls[b].outcome = "resolved" /\ calls[b].returned # None
    /\ calls[a].returned[1].compras # calls[b].returned[1].compras
    /\ data = calls[a].returned

(***************************************************************************)
(* Properties of the annotation store.                                     *)
(***************************************************************************)
\* the entries of the other keys, in list order
Others(list, folio) == SelectSeq(list, LAMBDA n : n.folio # folio)

\* C6: the local list holds at most one annotation per key, and a step
\* appends an entry only when no entry of that key is held.
C6_OnePerKey ==
  /\ [](\A i, j \in 1 .. Len(notas) : notas[i].folio = notas[j].folio => i = j)
  /\ [][(Len(notas') = Len(notas) + 1 /\ SubSeq(notas', 1, Len(notas)) = notas)
          => \A i \in 1 .. Len(notas) : notas[i].folio # notas'[Len(notas')].folio]_vars

\* C7: a partial update of a key with no local annotation appends a
\* placeholder with notaId 0 that carries the new value; a successful
\* reconciliation replaces that placeholder in place by the server record,
\* which has a non-zero id and the value just written; in between the value
\* shown for the key is the value just written.
C7_PlaceholderReconciled ==
  /\ [](\A c \in NotasCalls :
          notasCalls[c].pc \in {"reconSent", "reconReplied"}
          => /\ getNotaByFolio(notasCalls[c].folio) # 0
             /\ Patched(notasCalls[c].op, notas[getNotaByFolio(notasCalls[c].folio)], notasCalls[c])
                  = notas[getNotaByFolio(notasCalls[c].folio)])
  /\ [][\A c \in NotasCalls :
          /\ (/\ notasCalls[c].op \in {"updateComment", "updateContabilizado"}
              /\ notasCalls[c].pc = "replied"
              /\ notasCalls[c].response.status = "ok"
              /\ Indices(notasCalls[c].folio) = {}
              /\ notasCalls'[c] # notasCalls[c])
             => /\ Len(notas') = Len(notas) + 1
                /\ \A i \in 1 .. Len(notas) : notas'[i] = notas[i]
                /\ notas'[Len(notas')].notaId = 0
                /\ notas'[Len(notas')].folio = notasCalls[c].folio
                /\ Patched(notasCalls[c].op, notas'[Len(notas')], notasCalls[c]) = notas'[Len(notas')]
                /\ notasCalls'[c].pc = "reconSent"
          /\ (/\ notasCalls[c].pc = "reconReplied"
              /\ notasCalls[c].response.status = "ok"
              /\ notasCalls'[c] # notasCalls[c])
             => /\ Len(notas') = Len(notas)
                /\ \A i \in 1 .. Len(notas) :
                     IF notas[i].folio = notasCalls[c].folio
                     THEN /\ notas[i].notaId = 0
                          /\ notas'[i].notaId # 0
                          /\ notas'[i].folio = notasCalls[c].folio
                          /\ Patched(notasCalls[c].op, notas'[i], notasCalls[c]) = notas'[i]
                     ELSE notas'[i] = notas[i]]_vars

\* the reconciliation response of updateContabilizado has arrived while the
\* placeholder sits behind another annotation
C7_Witness ==
  \E c \in NotasCalls :
    /\ notasCalls[c].op = "updateContabilizado"
    /\ notasCalls[c].pc = "reconReplied"
    /\ notasCalls[c].response.status = "ok"
    /\ notasCalls[c].response.data[1].notaId # 0
    /\ Len(notas) = 2
    /\ notas[2].notaId = 0
    /\ notas[2].folio = notasCalls[c].folio
    /\ notas[1].folio # notasCalls[c].folio

\* C8: when the reconciliation fetch fails, the update action still completes
\* successfully, the placeholder stays and the error slot records no error.
C8_ReconciliationSilent ==
  [][\A c \in NotasCalls :
       (/\ notasCalls[c].pc = "reconReplied"
        /\ notasCalls[c].response.status = "error"
        /\ notasCalls'[c] # notasCalls[c])
       => /\ notasCalls'[c].outcome = "resolved"
          /\ notas' = notas
          /\ \E i \in Indices(notasCalls[c].folio) : notas[i].notaId = 0
          /\ notasError' = NullError]_vars

\* C9: a successful updateComment leaves the flags held for the key as they
\* were: those of the local annotation when one was held, those of the
\* server's record otherwise.
C9_CommentKeepsFlags ==
  [][\A c \in NotasCalls :
       /\ (/\ notasCalls[c].op = "updateComment"
           /\ notasCalls[c].pc = "replied"
           /\ notasCalls[c].response.status = "ok"
           /\ notasCalls'[c] # notasCalls[c])
          => \A i \in 1 .. Len(notas) :
               /\ notas'[i].contabilizado = notas[i].contabilizado
               /\ notas'[i].pagado = notas[i].pagado
       /\ (/\ notasCalls[c].op = "updateComment"
           /\ notasCalls[c].pc = "reconReplied"
           /\ notasCalls'[c].pc = "done"
           /\ notasCalls'[c].outcome = "resolved"
           /\ serverNotas[notasCalls[c].folio] # None)
          => \A i \in 1 .. Len(notas') :
               notas'[i].folio = notasCalls[c].folio
               => /\ notas'[i].contabilizado = serverNotas[notasCalls[c].folio][1].contabilizado
                  /\ notas'[i].pagado = serverNotas[notasCalls[c].folio][1].pagado]_vars

\* C10: a successful deleteNota leaves no local annotation of the key and
\* every other annotation as it was, whether or not one was held, and does
\* not fail; a failed one leaves the list unchanged.
C10_DeleteRemovesKey ==
  [][\A c \in NotasCalls :
       (/\ notasCalls[c].op = "deleteNota"
        /\ notasCalls[c].pc = "replied"
        /\ notasCalls'[c] # notasCalls[c])
       => IF notasCalls[c].response.status = "ok"
          THEN /\ \A i \in 1 .. Len(notas') : notas'[i].folio # notasCalls[c].folio
               /\ Others(notas', notasCalls[c].folio) = Others(notas, notasCalls[c].folio)
               /\ notasCalls'[c].outcome = "resolved"
          ELSE notas' = notas]_vars

(***************************************************************************)
(* Properties of the invoice list view.                                    *)
(***************************************************************************)
\* C11: the annotation key an edit of one row addresses is addressed by no
\* other (distinct) row of the ledger.
C11_KeyResolvesToOneRow ==
  \A c \in NotasCalls :
    edits[c].kind # "none"
    => \A j \in 1 .. Len(StoreRows) :
         j # edits[c].row => FolioKey(StoreRows[j].folio) # notasCalls[c].folio

(***************************************************************************)
(* Properties of the live event channel.                                   *)
(***************************************************************************)
\* C12: the channel keeps a single connection: no socket is created while the
\* current socket is connected, and at most one socket whose handlers can
\* still run is alive at a time.
C12_SingleConnection ==
  /\ [][SocketConnected => \A s \in SocketIds : Alive(s)' => Alive(s)]_vars
  /\ [](Cardinality({s \in SocketIds : Alive(s)}) <= 1)

\* C13: while the service is disconnected (it holds no socket) isConnected is
\* false, and no notification is created for a 'new_record' event that arrived
\* while it was disconnected.
C13_SilentAfterDisconnect ==
  /\ [](socket = 0 => ~ connected)
  /\ [](\A n \in 1 .. Len(notifications) : ~ notifications[n].late)

\* a handler that waited for the permission goes on in this step
Resumes == Len(waiting') < Len(waiting)

\* C14 as stated: a handler waits only when the permission is 'default'; a
\* notification is created if and only if the permission is 'granted' once the
\* handler has waited for the answer; without the permission nothing is
\* created and the connection is unchanged.
C14_NotifiedIffGranted ==
  [][/\ Len(waiting') > Len(waiting) => permission = "default"
     /\ Len(notifications') > Len(notifications) => permission' = "granted"
     /\ (Resumes /\ permission' = "granted") => Len(notifications') = Len(notifications) + 1
     /\ (Resumes /\ permission' # "granted")
          => UNCHANGED << notifications, socket, sockets, connected >>]_vars

\* C14 amended: a handler waits only when the permission is 'default'; a
\* notification is created only if the permission is 'granted' once the handler
\* has waited for the answer; with the permission, the handler creates one
\* notification for its record unless the Notification constructor throws, and
\* then it creates none; in no case is the connection changed.
C14_NotifiedOnlyIfGranted ==
  [][/\ Len(waiting') > Len(waiting) => permission = "default"
     /\ Len(notifications') > Len(notifications) => permission' = "granted"
     /\ Resumes
          => /\ \/ UNCHANGED notifications
                \/ /\ permission' = "granted"
                   /\ Len(notifications') = Len(notifications) + 1
                   /\ \E h \in 1 .. Len(waiting) :
                        /\ waiting' = WithoutWaiting(h)
                        /\ notifications'[Len(notifications')].tag = waiting[h].folio
                   /\ notifications'[Len(notifications')].state = "open"
             /\ UNCHANGED << socket, sockets, connected >>
     /\ (Resumes /\ permission' # "granted") => UNCHANGED notifications]_vars

\* the permission was requested and granted, and the handler that asked has
\* created its notification
C14_Witness ==
  /\ permission = "granted"
  /\ \E n \in 1 .. Len(notifications) : notifications[n].asked /\ notifications[n].state = "open"

\* C15: every notification is created with its auto-close timer armed and is
\* eventually closed; a click closes it and brings the window to the
\* foreground.
C15_EveryNotificationCloses ==
  /\ [](\A n \in 1 .. Len(notifications) :
          notifications[n].state = "open" => notifications[n].timer)
  /\ \A n \in 1 .. MaxNotifications :
       (n <= Len(notifications) /\ notifications[n].state = "open")
         ~> (n <= Len(notifications) /\ notifications[n].state = "closed")
  /\ [][\A n \in 1 .. Len(notifications) :
          (/\ Len(notifications') = Len(notifications)
           /\ notifications[n].state = "open"
           /\ notifications'[n].state = "closed"
           /\ notifications'[n].timer)
          => focused']_vars

\* a notification was closed by a click that brought the window back, and its
\* timer is still armed
C15_Witness ==
  /\ focused
  /\ Len(notifications) = MaxNotifications
  /\ notifications[1].state = "closed" /\ notifications[1].timer
  /\ notifications[2].state = "closed" /\ ~ notifications[2].timer
  /\ notifications[1].tag # notifications[2].tag

(***************************************************************************)
(* Properties of the view's life cycle.                                    *)
(***************************************************************************)
\* C16: once the component is unmounted no counter-refresh interval is active.
C16_IntervalNeverOutlivesView == lifecycle = "unmounted" => ~ intervalActive

(***************************************************************************)
(* Properties of the filtered and sorted projection.                       *)
(***************************************************************************)
\* C17: computing the projection, with any search, filters and sort, leaves the
\* store's raw detail list unchanged, in content and in order.
C17_ProjectionLeavesRawList == [][StoreRows' = StoreRows]_vars

\* a row satisfies every constraint whose input is not empty (the search box:
\* not empty and not only white space)
Satisfies(compra) ==
  /\ trim(globalSearch) # << >>
       => includes(searchableText(compra), trim(toLowerCase(globalSearch)))
  /\ filters.rutProveedor # << >>
       => includes(toLowerCase(compra.rutProveedor), toLowerCase(filters.rutProveedor))
  /\ filters.razonSocial # << >>
       => includes(toLowerCase(compra.razonSocial), toLowerCase(filters.razonSocial))
  /\ filters.tipoDte # << >> => toString(compra.tipoDTE) = filters.tipoDte
  /\ filters.estado # << >> => compra.estado = filters.estado
  /\ filters.fechaDesde # << >> => NewDate(compra.fechaEmision) >= NewDate(filters.fechaDesde)
  /\ filters.fechaHasta # << >> => NewDate(compra.fechaEmision) <= NewDate(filters.fechaHasta)
  /\ filters.montoMinimo # None => compra.montoTotal >= filters.montoMinimo[1]
  /\ filters.montoMaximo # None => compra.montoTotal <= filters.montoMaximo[1]

\* C18: the projection holds exactly the raw rows that satisfy every non-empty
\* constraint, each once; with every input empty it is a permutation of the
\* raw list.
C18_ProjectionIsTheSatisfyingRows ==
  projection # None
  => LET shown == projection[1]
         wanted == {j \in 1 .. Len(StoreRows) : Satisfies(StoreRows[j])}
     IN  /\ {shown[i] : i \in 1 .. Len(shown)} = {StoreRows[j] : j \in wanted}
         /\ Len(shown) = Cardinality(wanted)

\* C19: applying the search and the filters to the already filtered rows gives
\* the same rows.
C19_FilteringIsIdempotent ==
  projection # None => Filtered(projection[1], globalSearch, filters) = projection[1]

\* a maximum amount and a second filter have removed some rows and kept others
C19_Witness ==
  /\ projection # None
  /\ filters.montoMaximo = Some(200)
  /\ filters.estado # << >>
  /\ Len(projection[1]) \in 1 .. Len(StoreRows) - 1

\* the rows of the period have the totals 100, 200 and 300
ScenarioRows ==
  /\ Len(StoreRows) = 3
  /\ {StoreRows[j].montoTotal : j \in 1 .. 3} = {100, 200, 300}

\* C20: the totals are those of the projection: its number of rows and the sums
\* of its rows' total, net and tax amounts; rows with totals 100, 200 and 300
\* give 600, and 500 over 2 rows with a minimum amount of 200.
C20_TotalsOfTheProjection ==
  projection # None
  => /\ totales.totalDocumentos = Len(projection[1])
     /\ totales.montoTotal = Sum(projection[1], "montoTotal")
     /\ totales.montoNeto = Sum(projection[1], "montoNeto")
     /\ totales.ivaTotal = Sum(projection[1], "montoIvaRecuperable")
     /\ (ScenarioRows /\ ActiveInputs(globalSearch, filters) = {})
          => totales.montoTotal = 600
     /\ (ScenarioRows /\ ActiveInputs(globalSearch, filters) = {"montoMinimo"}
           /\ filters.montoMinimo = Some(200))
          => totales.montoTotal = 500 /\ totales.totalDocumentos = 2

\* the totals of rows 100, 200 and 300 filtered by a minimum amount of 200
C20_Witness ==
  /\ projection # None
  /\ ScenarioRows
  /\ ActiveInputs(globalSearch, filters) = {"montoMinimo"}
  /\ filters.montoMinimo = Some(200)
  /\ totales.montoTotal = 500
  /\ totales.totalDocumentos = 2

(***************************************************************************)
(* Properties of the sort.                                                 *)
(***************************************************************************)
Reverse(rows) == [i \in 1 .. Len(rows) |-> rows[Len(rows) + 1 - i]]

\* no two rows of the list compare equal on the sort field
NoTwoCompareEqual ==
  \A i, j \in 1 .. Len(sortInput) :
    i # j => comparator(sortInput[i], sortInput[j],
                        [field |-> sortField, direction |-> "asc"]) # 0

\* C21: sorting ascending and then descending by a field gives the exact
\* reverse of the ascending order exactly when no two rows compare equal on the
\* field (a row without a value compares equal to every row).
C21_DescendingReversesAscending ==
  descending # None => ((descending[1] = Reverse(ascending[1])) <=> NoTwoCompareEqual)

\* a full list that the ascending sort reordered and the descending sort
\* reversed
C21_Witness ==
  /\ descending # None
  /\ Len(sortInput) = MaxSortRows
  /\ ascending[1] # sortInput
  /\ descending[1] = Reverse(ascending[1])

(***************************************************************************)
(* Properties of the table: sort header, column visibility, export.        *)
(***************************************************************************)
\* C22: a change of the sort configuration either flips the direction of the
\* same field or selects another field ascending, and it changes neither the
\* filters, nor the search term, nor the column visibility.
C22_SortByFlipsOrResets ==
  [][sortConfig' # sortConfig
     => /\ \/ /\ sortConfig'.field = sortConfig.field
              /\ sortConfig'.direction = IF sortConfig.direction = "asc" THEN "desc" ELSE "asc"
           \/ /\ sortConfig'.field # sortConfig.field
              /\ sortConfig'.direction = "asc"
        /\ UNCHANGED << filters, globalSearch, columnVisibility >>]_vars

\* another column was selected and clicked again, with a search and a hidden
\* column in place
C22_Witness ==
  /\ sortConfig = [field |-> "montoTotal", direction |-> "desc"]
  /\ globalSearch # << >>
  /\ ~ columnVisibility["rutProveedor"]

\* C23: a change of the column visibility changes neither the raw detail list,
\* nor the filters, the search term, the sort configuration or the projection;
\* resetColumns sets exactly the visibility the view starts with.
C23_ColumnsAffectRenderingOnly ==
  [][/\ columnVisibility' # columnVisibility
          => UNCHANGED << data, filters, globalSearch, sortConfig, projection, totales >>
     /\ resetColumns => columnVisibility' = InitialVisibility]_vars

\* every column was shown and one hidden again, over a searched and re-sorted
\* list
C23_Witness ==
  /\ columnVisibility = [c \in Columns |-> c # "rutProveedor"]
  /\ projection # None
  /\ globalSearch # << >>
  /\ sortConfig.field = "folio"

\* the step writes a workbook
Exports == exported' # exported

\* C24: the sheet written holds one data row per row of the projection, in its
\* order, with the values of the 13 fixed columns; the 13 column widths are
\* set, and with data rows the header is the 13 fixed keys, whatever the
\* column visibility.
C24_ExportIsTheProjection ==
  [][Exports
     => LET book == exported'[1]
            shown == projection[1]
        IN  /\ Len(book.sheet.rows) = Len(shown)
            /\ \A i \in 1 .. Len(shown) :
                 /\ book.sheet.rows[i] = ExportObject(shown[i]).values
                 /\ Len(book.sheet.rows[i]) = 13
            /\ Len(book.cols) = 13
            /\ shown # << >> => book.sheet.header = ExportKeys /\ Len(book.sheet.header) = 13]_vars

\* a workbook of one of three rows was written, and a column is hidden
C24_Witness ==
  /\ exported # None
  /\ Len(exported[1].sheet.rows) = 1
  /\ Len(StoreRows) = 3
  /\ \E c \in Columns : c # "descargar" /\ ~ columnVisibility[c]

\* C25: exporting an empty projection writes a sheet with the 13-column header
\* row and no data rows.
C25_EmptyExportHasHeader ==
  [][(Exports /\ projection[1] = << >>)
     => /\ exported'[1].sheet.header = ExportKeys
        /\ exported'[1].sheet.rows = << >>]_vars

\* C26: a togglePagado that has run found the action of the annotation store
\* that updates the paid flag only and asked it for the update; the row's
\* pagado flag is the negation of its previous value when the update was
\* accepted, and its previous value when it failed
C26_TogglePagadoUpdatesThroughStore ==
  pagadoLog # None =>
       /\ "updatePagado" \in StoreMembers(variant)
       /\ pagadoLog[1].requested
       /\ StoreRows[pagadoLog[1].row].pagado =
            (IF pagadoLog[1].line = "updated"
             THEN ~ pagadoLog[1].previous ELSE pagadoLog[1].previous)

\* the period the backend holds under an id
PeriodoOfId(id) ==
  AllPeriodos[CHOOSE i \in 1 .. Len(AllPeriodos) : AllPeriodos[i].periodoId = id]

\* C27: the snapshot is never torn: whenever a getAll call writes data, the
\* caratula (company, month, year, period code) describes the period whose
\* summary and detail rows the call stores in data.compras, and
\* selectedPeriodo is that period
C27_SnapshotNeverTorn ==
  [][\A c \in LedgerCalls :
       (calls[c].pc = "join" /\ calls'[c].pc = "done" /\ calls'[c].outcome = "resolved")
       => /\ data' # None
          /\ data'[1].compras.detalleCompras = mapDetalles(DetalleDb(calls[c].periodoId))
          /\ data'[1].compras.resumenes = mapResumenes(ResumenDb(calls[c].periodoId))
          /\ data'[1].caratula.rutEmpresa = PeriodoOfId(calls[c].periodoId).rutEmpresa
          /\ data'[1].caratula.mes = PeriodoOfId(calls[c].periodoId).mes
          /\ data'[1].caratula.anio = PeriodoOfId(calls[c].periodoId).anio
          /\ data'[1].caratula.nombreMes = getMonthName(PeriodoOfId(calls[c].periodoId).mes)
          /\ data'[1].caratula.periodo = PeriodoCode(PeriodoOfId(calls[c].periodoId))
          /\ selectedPeriodo' = Some(PeriodoOfId(calls[c].periodoId))]_vars

\* the invocations in flight of the actions that set the loading flag
LoadingInFlight(cs) ==
  {c \in LedgerCalls : InFlight(cs[c]) /\ (cs[c].op = "getAll" \/ SetsLoading(cs[c].op))}

\* C28: the loading flag is true whenever at least one of getAll, loadEmpresas,
\* loadPeriodosByEmpresa, loadResumenCompras and loadDetalleCompras is in
\* flight, however the actions overlap, and it becomes false only in a step
\* after which none of them is in flight
C28_LoadingWhileAnyInFlight ==
  /\ [](LoadingInFlight(calls) # {} => loading = TRUE)
  /\ [][(loading = TRUE /\ loading' = FALSE) => LoadingInFlight(calls') = {}]_vars

\* C29: a row's annotation fields change only when the server accepted the
\* edit: when the store call of toggleContabilizado or saveComment settles
\* after the server refused it, the row keeps its contabilizado flag and its
\* comentario and the comment editor stays as it is; when it settles after the
\* server accepted it, the row holds the new value
C29_RowChangesOnlyWhenAccepted ==
  [][\A c \in NotasCalls :
       (edits[c].kind # "none" /\ notasCalls[c].pc # "done" /\ notasCalls'[c].pc = "done")
       => IF notasCalls'[c].outcome = "resolved"
          THEN StoreRows'[edits[c].row] = EditedRow(StoreRows[edits[c].row], edits[c])
          ELSE /\ StoreRows'[edits[c].row] = StoreRows[edits[c].row]
               /\ UNCHANGED << editingComment, editingCommentText >>]_vars

(***************************************************************************)
(* Properties of the SII fetch.                                            *)
(***************************************************************************)
\* C30: a fetchSiiData handler issues refreshData and the call-counter fetch
\* only after its fetchAndStore has succeeded, in that order, and issues
\* neither when fetchAndStore failed; in the step in which fetchAndStore fails
\* siiStore.error takes a non-empty message, siiStore.loading becomes false
\* and lastFetchInfo keeps its value.
C30_RefreshOnlyAfterFetch ==
  /\ [](\A s \in FetchSlots :
          /\ \E n \in 0 .. 3 :
               fetches[s].issued = SubSeq(<< "fetchAndStore", "refreshData", "fetchCallCount" >>, 1, n)
          /\ Len(fetches[s].issued) >= 2 => fetches[s].fetched = "ok"
          /\ fetches[s].fetched = "failed" => fetches[s].issued = << "fetchAndStore" >>
          /\ fetches[s].pc \in {"refreshWakeup", "refreshPause", "tipos", "proveedores", "ledger"}
               => fetches[s].issued = << "fetchAndStore", "refreshData" >>
          /\ fetches[s].pc = "counter"
               => fetches[s].issued = << "fetchAndStore", "refreshData", "fetchCallCount" >>)
  /\ [][\A s \in FetchSlots :
          (fetches[s].pc = "fetching" /\ fetches'[s].fetched = "failed")
          => /\ siiError' \notin {NullError, ""}
             /\ siiLoading' = FALSE
             /\ lastFetchInfo' = lastFetchInfo
             /\ fetches'[s].pc = "done"
             /\ UNCHANGED << calls, isWakingUp >>]_vars

\* one handler has ended after its fetchAndStore failed, having issued nothing
\* else, and another has fetched, refreshed the ledger and fetched the counter
C30_Witness ==
  \E s, t \in FetchSlots :
    /\ fetches[s].pc = "done"
    /\ fetches[s].fetched = "failed"
    /\ fetches[s].issued = << "fetchAndStore" >>
    /\ fetches[t].pc = "done"
    /\ fetches[t].fetched = "ok"
    /\ fetches[t].issued = << "fetchAndStore", "refreshData", "fetchCallCount" >>
    /\ lastFetchInfo = Some([year |-> "2025", month |-> "08", timestamp |-> t])

====
